---- MODULE Spec2Model ----
(***************************************************************************)
(* State-machine model of the browser UI toolkit of perghosh/web-vote:     *)
(*   UIToast        (src/unnamed/part_002, gd_ui_toast.js)                 *)
(*   UITree         (src/target/vote/js/gd_ui_tree_temp.js)                *)
(*   UITabControl   (src/target/vote/js/gd_ui_tabs.js)                     *)
(*   DBRecord       (src/target/vote/js/gd_db.js)                          *)
(* Each component has its own specification (SpecToast, SpecTree, ...)     *)
(* in which the variables of the other components keep their constructed   *)
(* value.  Cosmetic inline styles (opacity, transform, colours) are not    *)
(* part of the state; class lists, DOM membership, timers, callbacks and   *)
(* the data structures of the components are.                              *)
(***************************************************************************)
EXTENDS Integers, Sequences, FiniteSets, TLC

VARIABLES
    \* ---- UIToast
    toasts,          \* every toast element created by Show, by creation number
    aToasts,         \* this.aToasts: the active toasts, oldest first
    iMaxStack,       \* this.oOptions.iMaxStack
    bToastDestroyed, \* Destroy() has run (this.eContainer === null)
    \* ---- UITree
    oNodes,          \* this.oNodes: registry, id -> node object
    aRoots,          \* this.aRoots
    aSelected,       \* this.aSelected
    oTreeOptions,    \* this.oOptions (bMultiSelect, bExpandAll, fnCallback set)
    aLazyPending,    \* lazyload completions handed to fnCallback, not yet invoked
    oTreeLast,       \* the last UITree call: name, arguments, result
    \* ---- UITabControl
    aTabs,           \* this.aTabs
    iActiveIndex,    \* this.iActiveIndex
    oTabStyle,       \* this.oStyle (which classes the caller configured)
    iTabCreated,     \* number of tabs created so far (identity of a tab object)
    oTabLast,        \* the last UITabControl call
    \* ---- DBRecord
    aColumn,         \* this.aColumn
    mapValues,       \* this.mapValues
    oDbLast,         \* the last DBRecord call
    aKeyColumns,     \* this._aKeyColumns (the key-column cache)
    bFnWrite,        \* this.fnWrite is set
    oDbRet,          \* what the last DBRecord call returned or threw
    \* ---- Table
    oTables,         \* the Table objects: aTable (rows) and aColumn, each row and
                     \* column an object with an identity
    iTableObjects,   \* number of row and column objects created so far
    oTableLast,      \* the last Table call and what it returned
    \* ---- UIDraggable
    oDrag,           \* the UIDraggable's fields: bDragging, iInitialX/Y, iCurrentX/Y,
                     \* iXOffset/iYOffset, and the position set on the element
    oDragOptions,    \* this.oOptions (snapping, bounds, which callbacks are set)
    oDragLast,       \* the last UIDraggable call and the callbacks it invoked
    bDragOpen        \* fnOnDragStart was invoked and fnOnDragEnd not yet since

toastVars == <<toasts, aToasts, iMaxStack, bToastDestroyed>>
treeVars  == <<oNodes, aRoots, aSelected, oTreeOptions, aLazyPending, oTreeLast>>
tabVars   == <<aTabs, iActiveIndex, oTabStyle, iTabCreated, oTabLast>>
dbVars    == <<aColumn, mapValues, oDbLast, aKeyColumns, bFnWrite, oDbRet>>
tableVars == <<oTables, iTableObjects, oTableLast>>
dragVars  == <<oDrag, oDragOptions, oDragLast, bDragOpen>>
vars      == <<toastVars, treeVars, tabVars, dbVars, tableVars, dragVars>>

\* ---- generic array helpers (Array.prototype.indexOf / splice / includes)
Range(s) == {s[i] : i \in DOMAIN s}

Includes(s, x) == \E i \in DOMAIN s : s[i] = x

\* 1-based position of the first occurrence of x, 0 when absent (indexOf's -1)
IndexOf(s, x) ==
    IF Includes(s, x) THEN CHOOSE i \in DOMAIN s : s[i] = x /\ \A j \in 1..(i-1) : s[j] # x
    ELSE 0

\* s.splice(i, 1) for a 1-based position i
SpliceOut(s, i) == [k \in 1..(Len(s)-1) |-> IF k < i THEN s[k] ELSE s[k+1]]

\* const i = s.indexOf(x); if( i > -1 ) s.splice(i, 1)
RemoveFirst(s, x) == IF IndexOf(s, x) > 0 THEN SpliceOut(s, IndexOf(s, x)) ELSE s

(***************************************************************************)
(*                               UIToast                                   *)
(***************************************************************************)
MaxToasts == 3          \* Show is called at most this many times
MaxStackChoice == 2     \* iMaxStack is configured in 0..MaxStackChoice

DefaultMaxStack == 5    \* constructor default of iMaxStack

StackChoices == 0..MaxStackChoice
DurationChoices == {0, 3000}

ToastIds == 1..MaxToasts

\* the element built by _create_toast_element plus what Show stores on it
NewToast(iDuration, bShowClose) ==
    [ iDuration |-> iDuration,
      bShowClose |-> bShowClose,
      bHandler   |-> bShowClose,     \* click listener of the close button attached
      bClosing   |-> FALSE,          \* class 'toast-closing'
      bInDom     |-> TRUE,           \* eToast.parentNode === this.eContainer
      sTimer     |-> "none",         \* eToast._timeout: none, pending, cleared, fired
      aRemoval   |-> << >>,          \* pending 300 ms removal timers, each with its bAuto
      aOnClose   |-> << >> ]         \* arguments of the fnOnClose calls made so far

\* clearTimeout(eToast._timeout) when one was set
ClearTimeout(sTimer) == IF sTimer = "pending" THEN "cleared" ELSE sTimer

\* _dismiss_toast(eToast, bAuto); t = 0 stands for undefined (shift() of an empty array)
DismissToast(S, t, bAuto) ==
    IF t = 0 \/ S.toasts[t].bClosing THEN S
    ELSE [ toasts  |-> [S.toasts EXCEPT ![t].bHandler = FALSE,
                                        ![t].sTimer   = ClearTimeout(@),
                                        ![t].bClosing = TRUE,
                                        ![t].aRemoval = Append(@, bAuto)],
           aToasts |-> RemoveFirst(S.aToasts, t) ]

\* mutant: the immediate branch forgets clearTimeout
DismissImmediateKeepTimer(S, t) ==
    [ S EXCEPT !.toasts[t].bInDom = FALSE,
               !.toasts[t].aOnClose = Append(@, FALSE) ]

\* DismissAll(false), body of the forEach for one toast
DismissImmediate(S, t) ==
    [ S EXCEPT !.toasts[t].sTimer   = ClearTimeout(@),
               !.toasts[t].bInDom   = FALSE,
               !.toasts[t].aOnClose = Append(@, FALSE) ]

RECURSIVE DismissEach(_, _, _)
\* aToastsCopy.forEach(...) of DismissAll
DismissEach(S, aCopy, bAnimated) ==
    IF aCopy = << >> THEN S
    ELSE DismissEach(IF bAnimated THEN DismissToast(S, Head(aCopy), FALSE)
                                  ELSE DismissImmediate(S, Head(aCopy)),
                     Tail(aCopy), bAnimated)

ToastState == [toasts |-> toasts, aToasts |-> aToasts]

\* mutant: a timeout is armed whatever iDuration is
ShowTimerAlways(iDuration) == "pending"

\* Show: the auto-dismiss timeout is set in both branches that have iDuration > 0
ShowTimer(iDuration) == IF iDuration > 0 THEN "pending" ELSE "none"

Show(iDuration, bShowClose) ==
    /\ ~bToastDestroyed                     \* appendChild on a null container throws
    /\ Len(toasts) < MaxToasts
    /\ LET t  == Len(toasts) + 1
           S0 == ToastState
           \* if( this.aToasts.length >= iMaxStack ) dismiss aToasts.shift()
           S1 == IF Len(S0.aToasts) >= iMaxStack
                 THEN IF S0.aToasts = << >> THEN S0
                      ELSE DismissToast([S0 EXCEPT !.aToasts = Tail(@)], Head(S0.aToasts), FALSE)
                 ELSE S0
       IN /\ toasts' = Append(S1.toasts,
                              [NewToast(iDuration, bShowClose) EXCEPT !.sTimer = ShowTimer(iDuration)])
          /\ aToasts' = Append(S1.aToasts, t)
    /\ UNCHANGED <<iMaxStack, bToastDestroyed, treeVars, tabVars, dbVars, tableVars, dragVars>>

\* click on the close button: closeHandler -> _dismiss_toast(eToast, false)
ClickClose(t) ==
    /\ t \in DOMAIN toasts
    /\ toasts[t].bHandler /\ toasts[t].bInDom /\ ~bToastDestroyed
    /\ LET S == DismissToast(ToastState, t, FALSE)
       IN toasts' = S.toasts /\ aToasts' = S.aToasts
    /\ UNCHANGED <<iMaxStack, bToastDestroyed, treeVars, tabVars, dbVars, tableVars, dragVars>>

\* the auto-dismiss timeout of Show fires: _dismiss_toast(eToast, true)
TimeoutFires(t) ==
    /\ t \in DOMAIN toasts
    /\ toasts[t].sTimer = "pending"
    /\ LET S == DismissToast([ToastState EXCEPT !.toasts[t].sTimer = "fired"], t, TRUE)
       IN toasts' = S.toasts /\ aToasts' = S.aToasts
    /\ UNCHANGED <<iMaxStack, bToastDestroyed, treeVars, tabVars, dbVars, tableVars, dragVars>>

\* the 300 ms timeout of _dismiss_toast fires: remove from DOM, call fnOnClose(bAuto)
RemovalFires(t) ==
    /\ t \in DOMAIN toasts
    /\ toasts[t].aRemoval # << >>
    /\ toasts' = [toasts EXCEPT ![t].aRemoval = Tail(@),
                                ![t].bInDom   = FALSE,
                                ![t].aOnClose = Append(@, Head(toasts[t].aRemoval))]
    /\ UNCHANGED <<aToasts, iMaxStack, bToastDestroyed, treeVars, tabVars, dbVars, tableVars, dragVars>>

DismissAll(bAnimated) ==
    /\ toasts' = DismissEach(ToastState, aToasts, bAnimated).toasts
    /\ aToasts' = << >>
    /\ UNCHANGED <<iMaxStack, bToastDestroyed, treeVars, tabVars, dbVars, tableVars, dragVars>>

\* UpdateOptions({iMaxStack: n})
UpdateOptions(n) ==
    /\ iMaxStack' = n
    /\ UNCHANGED <<toasts, aToasts, bToastDestroyed, treeVars, tabVars, dbVars, tableVars, dragVars>>

\* Destroy(): DismissAll(false), drop the container
Destroy ==
    /\ ~bToastDestroyed
    /\ toasts' = DismissEach(ToastState, aToasts, FALSE).toasts
    /\ aToasts' = << >>
    /\ bToastDestroyed' = TRUE
    /\ UNCHANGED <<iMaxStack, treeVars, tabVars, dbVars, tableVars, dragVars>>

\* GetActiveCount()
GetActiveCount == Len(aToasts)

\* new UIToast(parent_, {iMaxStack})
ToastInit ==
    /\ toasts = << >>
    /\ aToasts = << >>
    /\ iMaxStack \in StackChoices \cup {DefaultMaxStack}
    /\ bToastDestroyed = FALSE

ToastNext ==
    \/ \E d \in DurationChoices, c \in BOOLEAN : Show(d, c)
    \/ \E t \in ToastIds : ClickClose(t)
    \/ \E t \in ToastIds : TimeoutFires(t)
    \/ \E t \in ToastIds : RemovalFires(t)
    \/ \E b \in BOOLEAN : DismissAll(b)
    \/ \E n \in StackChoices : UpdateOptions(n)
    \/ Destroy

(***************************************************************************)
(*                                UITree                                   *)
(***************************************************************************)
MaxNodes == 3           \* node ids are 1..MaxNodes when nodes are built and selected
MaxExpandNodes == 2     \* node ids are 1..MaxExpandNodes when nodes are expanded

NodeIds == 1..MaxNodes
ExpandIds == 1..MaxExpandNodes
NoId == 0               \* a missing sId / a null sParentId

\* node data given to AddRoot / AddChild: {sId, bExpanded, bLazy, aChildren}
LeafData == [sId : NodeIds \cup {NoId}, bExpanded : {FALSE}, bLazy : {FALSE},
             aChildren : {<< >>}]
\* data with nested initial children
NestedData == [sId : NodeIds \cup {NoId}, bExpanded : {FALSE}, bLazy : {FALSE},
               aChildren : {<< >>} \cup {<<c>> : c \in LeafData}
                                   \cup {<<c, d>> : c, d \in LeafData}]
\* data with the expansion flags
FlagData == [sId : ExpandIds \cup {NoId}, bExpanded : BOOLEAN, bLazy : BOOLEAN,
             aChildren : {<< >>}]

\* what the caller's fnCallback does with a 'lazyload' event: it invokes the
\* completion function before returning (with aKids), keeps it for later, or drops it
LazyKids == {<< >>} \cup {<<c>> : c \in {k \in LeafData : k.sId \in ExpandIds \cup {NoId}}}
LazyEnv == [sMode : {"sync"}, aKids : LazyKids] \cup [sMode : {"async", "never"}, aKids : {<< >>}]
NoLazyEnv == [sMode |-> "never", aKids |-> << >>]

TreeState == [oNodes |-> oNodes, aRoots |-> aRoots, aSelected |-> aSelected,
              aLazyPending |-> aLazyPending, bThrew |-> FALSE, bRet |-> FALSE]

\* _create_node_object
CreateNodeObject(d) ==
    [ sParentId |-> NoId, aChildren |-> << >>, bExpanded |-> d.bExpanded,
      bHasChildren |-> FALSE, bLazy |-> d.bLazy, bLoaded |-> FALSE ]

\* this.oNodes[sId] = oNode
PutNode(reg, sId, oNode) ==
    [x \in (DOMAIN reg) \cup {sId} |-> IF x = sId THEN oNode ELSE reg[x]]

\* delete this.oNodes[sId]; the caller abandons a load it still has under way
\* for a node that is deleted (its completion function is never invoked)
DeleteNode(T, sId) ==
    [T EXCEPT !.oNodes = [x \in (DOMAIN T.oNodes) \ {sId} |-> T.oNodes[x]],
              !.aLazyPending = @ \ {sId}]

\* Deselect(sNodeId)
DeselectOp(T, sId) ==
    IF sId \notin DOMAIN T.oNodes THEN [T EXCEPT !.bRet = FALSE]
    ELSE [T EXCEPT !.aSelected = RemoveFirst(@, sId), !.bRet = TRUE]

RECURSIVE DeselectEach(_, _)
\* aSelectedCopy.forEach(Deselect)
DeselectEach(T, aCopy) ==
    IF aCopy = << >> THEN T ELSE DeselectEach(DeselectOp(T, Head(aCopy)), Tail(aCopy))

\* ClearSelection()
ClearSelectionOp(T) == DeselectEach(T, T.aSelected)

\* Select(sNodeId, bAddToSelection)
SelectOp(T, sId, bAddToSelection) ==
    IF sId \notin DOMAIN T.oNodes THEN [T EXCEPT !.bRet = FALSE]
    ELSE LET T1 == IF ~oTreeOptions.bMultiSelect /\ ~bAddToSelection
                   THEN ClearSelectionOp(T) ELSE T
         IN [T1 EXCEPT !.aSelected = IF Includes(@, sId) THEN @ ELSE Append(@, sId),
                       !.bRet = TRUE]

RECURSIVE ExpandOp(_, _, _), AddChildOp(_, _, _, _), AddChildren(_, _, _, _)

\* the completion function _load_lazy_children hands to fnCallback
LazyComplete(T, sId, aKids, env) ==
    LET T1 == [T EXCEPT !.oNodes[sId].bLoaded = TRUE]
        T2 == AddChildren(T1, sId, aKids, env)
    IN IF T2.bThrew THEN T2 ELSE ExpandOp(T2, sId, env)

\* _load_lazy_children(oNode): fnCallback('lazyload', oNode, completion)
LoadLazyChildren(T, sId, env) ==
    CASE env.sMode = "sync"  -> LazyComplete(T, sId, env.aKids, env)
      [] env.sMode = "async" -> [T EXCEPT !.aLazyPending = @ \cup {sId}]
      [] OTHER               -> T

\* Expand(sNodeId)
ExpandOp(T, sId, env) ==
    IF sId \notin DOMAIN T.oNodes THEN [T EXCEPT !.bRet = FALSE]
    ELSE IF T.oNodes[sId].bLazy /\ ~T.oNodes[sId].bLoaded /\ oTreeOptions.bCallback
         THEN LET T1 == LoadLazyChildren(T, sId, env)
              IN IF T1.bThrew THEN T1 ELSE [T1 EXCEPT !.bRet = TRUE]
         ELSE [T EXCEPT !.oNodes[sId].bExpanded = TRUE, !.bRet = TRUE]

\* Collapse(sNodeId)
CollapseOp(T, sId) ==
    IF sId \notin DOMAIN T.oNodes THEN [T EXCEPT !.bRet = FALSE]
    ELSE [T EXCEPT !.oNodes[sId].bExpanded = FALSE, !.bRet = TRUE]

\* Toggle(sNodeId)
ToggleOp(T, sId, env) ==
    IF sId \notin DOMAIN T.oNodes THEN [T EXCEPT !.bRet = FALSE]
    ELSE IF T.oNodes[sId].bExpanded THEN CollapseOp(T, sId) ELSE ExpandOp(T, sId, env)

\* AddChild(sParentId, oNodeData); bThrew marks a throw, which ends the call
\* and every call it is nested in, leaving the state as it is at that point
AddChildOp(T, sParentId, d, env) ==
    IF T.bThrew THEN T
    ELSE IF sParentId \notin DOMAIN T.oNodes THEN [T EXCEPT !.bThrew = TRUE]
    ELSE IF d.sId = NoId THEN [T EXCEPT !.bThrew = TRUE]
    ELSE IF d.sId \in DOMAIN T.oNodes THEN [T EXCEPT !.bThrew = TRUE]
    ELSE LET oNode == [CreateNodeObject(d) EXCEPT !.sParentId = sParentId]
             T1 == [T EXCEPT !.oNodes = PutNode(
                                 [@ EXCEPT ![sParentId].aChildren = Append(@, d.sId),
                                           ![sParentId].bHasChildren = TRUE],
                                 d.sId, oNode)]
             T2 == IF d.bExpanded \/ oTreeOptions.bExpandAll
                   THEN ExpandOp(T1, d.sId, env) ELSE T1
         IN AddChildren(T2, d.sId, d.aChildren, env)

\* oNodeData.aChildren.forEach(oChild => this.AddChild(sId, oChild))
AddChildren(T, sParentId, aKids, env) ==
    IF aKids = << >> \/ T.bThrew THEN T
    ELSE AddChildren(AddChildOp(T, sParentId, Head(aKids), env), sParentId, Tail(aKids), env)

\* AddRoot(oNodeData)
AddRootOp(T, d, env) ==
    IF d.sId = NoId THEN [T EXCEPT !.bThrew = TRUE]
    ELSE IF d.sId \in DOMAIN T.oNodes THEN [T EXCEPT !.bThrew = TRUE]
    ELSE LET T1 == [T EXCEPT !.oNodes = PutNode(@, d.sId, CreateNodeObject(d)),
                             !.aRoots = Append(@, d.sId)]
             T2 == IF d.bExpanded \/ oTreeOptions.bExpandAll
                   THEN ExpandOp(T1, d.sId, env) ELSE T1
         IN AddChildren(T2, d.sId, d.aChildren, env)

RECURSIVE RemoveChildrenRecursive(_, _), RemoveEachChild(_, _)

\* mutant: only the direct children are removed
RemoveChildrenShallow(T, sParentId) ==
    IF sParentId \notin DOMAIN T.oNodes THEN T
    ELSE LET RECURSIVE Each(_, _)
             Each(U, aKids) ==
                 IF aKids = << >> THEN U
                 ELSE Each(DeleteNode(DeselectOp(U, Head(aKids)), Head(aKids)), Tail(aKids))
         IN [Each(T, T.oNodes[sParentId].aChildren) EXCEPT !.oNodes[sParentId].aChildren = << >>]

\* _remove_children_recursive(sParentId)
RemoveChildrenRecursive(T, sParentId) ==
    IF sParentId \notin DOMAIN T.oNodes THEN T
    ELSE [RemoveEachChild(T, T.oNodes[sParentId].aChildren)
              EXCEPT !.oNodes[sParentId].aChildren = << >>]

\* oParent.aChildren.slice().forEach(...) of _remove_children_recursive
RemoveEachChild(T, aKids) ==
    IF aKids = << >> THEN T
    ELSE LET c  == Head(aKids)
             T1 == RemoveChildrenRecursive(T, c)
             T2 == DeselectOp(T1, c)
             T3 == DeleteNode(T2, c)
         IN RemoveEachChild(T3, Tail(aKids))

\* Remove(sNodeId)
RemoveOp(T, sId) ==
    IF sId \notin DOMAIN T.oNodes THEN [T EXCEPT !.bRet = FALSE]
    ELSE LET p  == T.oNodes[sId].sParentId
             T1 == IF p # NoId
                   THEN IF p \in DOMAIN T.oNodes
                        THEN LET aLeft == RemoveFirst(T.oNodes[p].aChildren, sId)
                             IN [T EXCEPT !.oNodes[p].aChildren = aLeft,
                                          !.oNodes[p].bHasChildren =
                                              IF aLeft = << >> THEN FALSE ELSE @]
                        ELSE T
                   ELSE [T EXCEPT !.aRoots = RemoveFirst(@, sId)]
             T2 == DeselectOp(T1, sId)
             T3 == RemoveChildrenRecursive(T2, sId)
         IN [DeleteNode(T3, sId) EXCEPT !.bRet = TRUE]

\* GetSelected() when bMultiSelect is false: the node id, NoId for null
GetSelected == IF aSelected = << >> THEN NoId ELSE aSelected[1]

\* GetNode(sNodeId) # null
GetNode(sId) == sId \in DOMAIN oNodes

\* the lazy-load behaviours that matter for a call that may load (bMayLoad)
EnvsFor(bMayLoad) == IF bMayLoad /\ oTreeOptions.bCallback THEN LazyEnv ELSE {NoLazyEnv}

TreeCommit(T, sOp) ==
    /\ oNodes' = T.oNodes
    /\ aRoots' = T.aRoots
    /\ aSelected' = T.aSelected
    /\ aLazyPending' = T.aLazyPending
    /\ oTreeLast' = [sOp |-> sOp, bRet |-> T.bRet /\ ~T.bThrew, bThrew |-> T.bThrew,
                     iRemoved |-> Cardinality((DOMAIN oNodes) \ (DOMAIN T.oNodes))]
    /\ UNCHANGED <<oTreeOptions, toastVars, tabVars, dbVars, tableVars, dragVars>>

AddRoot(d, env) ==
    /\ TreeCommit([AddRootOp(TreeState, d, env) EXCEPT !.bRet = TRUE], "AddRoot")

AddChild(sParentId, d, env) ==
    /\ TreeCommit([AddChildOp(TreeState, sParentId, d, env) EXCEPT !.bRet = TRUE], "AddChild")

Remove(sId) ==
    /\ TreeCommit(RemoveOp(TreeState, sId), "Remove")

Expand(sId, env) ==
    /\ TreeCommit(ExpandOp(TreeState, sId, env), "Expand")

Collapse(sId) ==
    /\ TreeCommit(CollapseOp(TreeState, sId), "Collapse")

Toggle(sId, env) ==
    /\ TreeCommit(ToggleOp(TreeState, sId, env), "Toggle")

Select(sId, bAddToSelection) ==
    /\ TreeCommit(SelectOp(TreeState, sId, bAddToSelection), "Select")

Deselect(sId) ==
    /\ TreeCommit(DeselectOp(TreeState, sId), "Deselect")

ClearSelection ==
    /\ TreeCommit(ClearSelectionOp(TreeState), "ClearSelection")

\* click on a node's content element: this.Select(oNode.sId)
ContentClick(sId) ==
    /\ sId \in DOMAIN oNodes
    /\ TreeCommit(SelectOp(TreeState, sId, FALSE), "ContentClick")

\* the caller invokes the completion function it kept from a 'lazyload' event
LazyDone(sId, aKids) ==
    /\ sId \in aLazyPending
    /\ TreeCommit(LazyComplete([TreeState EXCEPT !.aLazyPending = @ \ {sId}],
                               sId, aKids, NoLazyEnv), "LazyDone")

TreeOptions == [bMultiSelect : BOOLEAN, bExpandAll : BOOLEAN, bCallback : BOOLEAN]

\* the constructor's defaults: bExpandAll false, bMultiSelect false, fnCallback null
TreeDefaults == [bMultiSelect |-> FALSE, bExpandAll |-> FALSE, bCallback |-> FALSE]

TreeLastNew == [sOp |-> "new", bRet |-> FALSE, bThrew |-> FALSE, iRemoved |-> 0]

\* new UITree(parent_, oOptions_)
TreeInit ==
    /\ oNodes = << >>
    /\ aRoots = << >>
    /\ aSelected = << >>
    /\ aLazyPending = {}
    /\ oTreeLast = TreeLastNew
    /\ oTreeOptions \in TreeOptions

\* building, removing and selecting nodes
TreeNext ==
    \/ \E d \in NestedData : AddRoot(d, NoLazyEnv)
    \/ \E p \in NodeIds, d \in NestedData : AddChild(p, d, NoLazyEnv)
    \/ \E n \in NodeIds : Remove(n)
    \/ \E n \in NodeIds, b \in BOOLEAN : Select(n, b)
    \/ \E n \in NodeIds : Deselect(n)
    \/ ClearSelection
    \/ \E n \in NodeIds : ContentClick(n)

\* building, removing, expanding and collapsing nodes, lazy loading included
TreeExpandNext ==
    \/ \E d \in FlagData : \E env \in EnvsFor(d.bLazy) : AddRoot(d, env)
    \/ \E p \in ExpandIds, d \in FlagData : \E env \in EnvsFor(d.bLazy) : AddChild(p, d, env)
    \/ \E n \in ExpandIds : Remove(n)
    \/ \E n \in ExpandIds : \E env \in EnvsFor(TRUE) : Expand(n, env)
    \/ \E n \in ExpandIds : Collapse(n)
    \/ \E n \in ExpandIds : \E env \in EnvsFor(TRUE) : Toggle(n, env)
    \/ \E n \in aLazyPending : \E aKids \in LazyKids : LazyDone(n, aKids)

(***************************************************************************)
(*                             UITabControl                                *)
(***************************************************************************)
MaxTabs == 3            \* AddTab is called at most this many times

TabIndexes == (0 - 1)..MaxTabs      \* the iIndex arguments tried, some out of range

TabState == [aTabs |-> aTabs, iActiveIndex |-> iActiveIndex]

\* the button and the panel AddTab creates for tab object number iTab
NewTab(iTab, iIndex) ==
    [ iTab         |-> iTab,
      iDataIndex   |-> iIndex,                  \* attribute data-tab-index
      bBtnNormal   |-> oTabStyle.bClassButton,  \* button carries class_button
      bBtnActive   |-> FALSE,                   \* button carries class_button_active
      bPanelActive |-> FALSE,                   \* panel carries class_active
      sDisplay     |-> "none" ]                 \* panel's inline style.display

\* SetActiveTab(iIndex); aTabs[k+1] is the code's this.aTabs[k]
SetActiveTabOp(S, iIndex) ==
    IF iIndex < 0 \/ iIndex >= Len(S.aTabs) THEN S
    ELSE LET iOld == S.iActiveIndex
             S1 == IF iOld # (0 - 1) /\ (iOld + 1) \in DOMAIN S.aTabs
                   THEN [S EXCEPT
                           !.aTabs[iOld + 1].bBtnActive =
                               IF oTabStyle.bClassButtonActive THEN FALSE ELSE @,
                           !.aTabs[iOld + 1].bBtnNormal =
                               IF oTabStyle.bClassButton THEN TRUE ELSE @,
                           !.aTabs[iOld + 1].bPanelActive = FALSE,
                           !.aTabs[iOld + 1].sDisplay = "none"]
                   ELSE S
         IN [S1 EXCEPT
               !.iActiveIndex = iIndex,
               !.aTabs[iIndex + 1].bBtnNormal =
                   IF oTabStyle.bClassButton THEN FALSE ELSE @,
               !.aTabs[iIndex + 1].bBtnActive =
                   IF oTabStyle.bClassButtonActive THEN TRUE ELSE @,
               !.aTabs[iIndex + 1].bPanelActive = TRUE,
               !.aTabs[iIndex + 1].sDisplay = "block"]

\* AddTab(sTitle, content_)
AddTabOp(S, iTab) ==
    LET S1 == [S EXCEPT !.aTabs = Append(@, NewTab(iTab, Len(S.aTabs)))]
    IN IF Len(S1.aTabs) = 1 THEN SetActiveTabOp(S1, 0) ELSE S1

Min(a, b) == IF a < b THEN a ELSE b

\* mutant: the active index is not moved when a tab before it is removed
ActiveAfterRemoveKeep(iActive, iIndex) == iActive

\* RemoveTab: else if (this.iActiveIndex > iIndex) { this.iActiveIndex--; }
ActiveAfterRemove(iActive, iIndex) == IF iActive > iIndex THEN iActive - 1 ELSE iActive

\* RemoveTab(iIndex)
RemoveTabOp(S, iIndex) ==
    IF iIndex < 0 \/ iIndex >= Len(S.aTabs) THEN S
    ELSE LET aLeft == SpliceOut(S.aTabs, iIndex + 1)
             \* this.aTabs.forEach((oTab, iNewIndex) => setAttribute('data-tab-index', iNewIndex))
             aRenumbered == [k \in DOMAIN aLeft |-> [aLeft[k] EXCEPT !.iDataIndex = k - 1]]
             S1 == [S EXCEPT !.aTabs = aRenumbered]
         IN IF S.iActiveIndex = iIndex
            THEN IF Len(aRenumbered) > 0
                 THEN SetActiveTabOp(S1, Min(iIndex, Len(aRenumbered) - 1))
                 ELSE [S1 EXCEPT !.iActiveIndex = 0 - 1]
            ELSE [S1 EXCEPT !.iActiveIndex = ActiveAfterRemove(@, iIndex)]

\* which of RemoveTab's cases a call falls in (recorded with the call)
RemoveCase(S, iIndex) ==
    CASE iIndex < 0 \/ iIndex >= Len(S.aTabs) -> "range"
      [] S.iActiveIndex = iIndex              -> "active"
      [] S.iActiveIndex > iIndex              -> "before"
      [] OTHER                                -> "after"

TabCommit(S, sOp, iIndex, sCase) ==
    /\ aTabs' = S.aTabs
    /\ iActiveIndex' = S.iActiveIndex
    /\ oTabLast' = [sOp |-> sOp, iIndex |-> iIndex, sCase |-> sCase]
    /\ UNCHANGED <<oTabStyle, toastVars, treeVars, dbVars, tableVars, dragVars>>

AddTab ==
    /\ iTabCreated < MaxTabs
    /\ iTabCreated' = iTabCreated + 1
    /\ TabCommit(AddTabOp(TabState, iTabCreated + 1), "AddTab", Len(aTabs), "")

SetActiveTab(iIndex) ==
    /\ TabCommit(SetActiveTabOp(TabState, iIndex), "SetActiveTab", iIndex,
                 IF iIndex < 0 \/ iIndex >= Len(aTabs) THEN "range" ELSE "")
    /\ UNCHANGED iTabCreated

RemoveTab(iIndex) ==
    /\ TabCommit(RemoveTabOp(TabState, iIndex), "RemoveTab", iIndex, RemoveCase(TabState, iIndex))
    /\ UNCHANGED iTabCreated

\* _on_click: a click on the button of the tab at position k of the header
HeaderClick(k) ==
    /\ k \in DOMAIN aTabs
    /\ TabCommit(SetActiveTabOp(TabState, aTabs[k].iDataIndex), "HeaderClick",
                 aTabs[k].iDataIndex, "")
    /\ UNCHANGED iTabCreated

\* GetActiveTab()
GetActiveTab == iActiveIndex

TabStyles == [bClassButton : BOOLEAN, bClassButtonActive : BOOLEAN]

\* the constructor's default style: every class null
TabStyleDefaults == [bClassButton |-> FALSE, bClassButtonActive |-> FALSE]

TabLastNew == [sOp |-> "new", iIndex |-> 0, sCase |-> ""]

\* new UITabControl(element_, {style})
TabInit ==
    /\ aTabs = << >>
    /\ iActiveIndex = 0 - 1
    /\ iTabCreated = 0
    /\ oTabLast = TabLastNew
    /\ oTabStyle \in TabStyles

TabNext ==
    \/ AddTab
    \/ \E i \in TabIndexes : SetActiveTab(i)
    \/ \E i \in TabIndexes : RemoveTab(i)
    \/ \E k \in 1..MaxTabs : HeaderClick(k)

(***************************************************************************)
(*                               DBRecord                                  *)
(***************************************************************************)
MaxColumns == 2         \* the schema holds at most this many columns

ColNames == {"FAlias", "FName", "FOther"}
Null == "null"
Undefined == "undefined"
DbValues == {"v1", Null}

\* the arrays of column names and of values passed to SetValue
NameArrays == {<< >>} \cup {<<a>> : a \in ColNames} \cup {<<a, b>> : a, b \in ColNames}
ValueArrays == {<< >>} \cup {<<v>> : v \in DbValues} \cup {<<v, w>> : v, w \in DbValues}

\* JavaScript values a column default or a cell can be, by type and value
JsZero == "number:0"
JsFalse == "boolean:false"
JsTrue == "boolean:true"
JsEmpty == "string:"

\* the values for which a || b evaluates to b
Falsy == {Undefined, Null, JsZero, JsFalse, JsEmpty}

\* new DBRecord.column({sName, bKey, default}): default_ = oOptions.default || null
ColumnOf(sName, bKey, default) ==
    [sName |-> sName, bKey |-> bKey, default_ |-> IF default \in Falsy THEN Null ELSE default]

\* new DBRecord.column({sName, bKey})
Column(sName, bKey) == ColumnOf(sName, bKey, Undefined)

\* _get_column(sName) !== undefined, for a string
HasColumn(cols, sName) == \E i \in DOMAIN cols : cols[i].sName = sName

\* GetColumnNames() as a set
ColumnNameSet(cols) == {cols[i].sName : i \in DOMAIN cols}

\* this._aKeyColumns = null
KeyCacheNull == [bNull |-> TRUE, aCols |-> << >>]

\* a call that returned nothing and threw nothing
DbRetNew == [ret |-> Undefined, sError |-> ""]

\* this.mapValues.set(sName, value_)
MapSet(map, sName, value) ==
    [x \in (DOMAIN map) \cup {sName} |-> IF x = sName THEN value ELSE map[x]]

\* _set_value_internal: warns for an unknown column, stores in every case
SetValueInternal(map, cols, sName, value) == MapSet(map, sName, value)

\* aValues[iIndex], undefined past the end of the array
ValueAt(aValues, i) == IF i \in DOMAIN aValues THEN aValues[i] ELSE Undefined

\* mutant: the array and object forms store without looking the column up
SetIfColumnAlways(map, cols, sName, value) == SetValueInternal(map, cols, sName, value)

\* if(oColumn) { this._set_value_internal(sColumnName, value) }
SetIfColumn(map, cols, sName, value) ==
    IF HasColumn(cols, sName) THEN SetValueInternal(map, cols, sName, value) ELSE map

RECURSIVE SetEach(_, _, _, _, _)
\* aColumnNames.forEach((sColumnName, iIndex) => ...) from index i on
SetEach(map, cols, aNames, aValues, i) ==
    IF i > Len(aNames) THEN map
    ELSE SetEach(SetIfColumn(map, cols, aNames[i], ValueAt(aValues, i)),
                 cols, aNames, aValues, i + 1)

\* SetValue(name_, value_), the definition that is in effect (the later one)
\*   sForm "nested": SetValue([aNames, aValues])     "arrays": SetValue(aNames, aValues)
\*   sForm "object": SetValue({aNames[i]: aValues[i], ...})
\*   sForm "string": SetValue(aNames[1], aValues[1])
SetValueOp(map, cols, sForm, aNames, aValues) ==
    CASE sForm \in {"nested", "arrays", "object"} ->
             [map |-> SetEach(map, cols, aNames, aValues, 1), bThrew |-> FALSE]
      [] sForm = "string" ->
             IF ~HasColumn(cols, aNames[1]) THEN [map |-> map, bThrew |-> TRUE]
             ELSE [map |-> SetValueInternal(map, cols, aNames[1], ValueAt(aValues, 1)),
                   bThrew |-> FALSE]

\* what a call was given: each name passed, with the last value passed for it
GivenMap(aNames, aValues) ==
    [n \in Range(aNames) |->
        ValueAt(aValues, CHOOSE i \in DOMAIN aNames :
                             aNames[i] = n /\ \A j \in DOMAIN aNames : aNames[j] = n => j <= i)]

DbCommit(map, sOp, sForm, aNames, aValues, bThrew) ==
    /\ mapValues' = map
    /\ oDbLast' = [sOp |-> sOp, sForm |-> IF sForm = "string" THEN "string" ELSE "many",
                   oGiven |-> GivenMap(aNames, aValues), bThrew |-> bThrew]
    /\ UNCHANGED <<toastVars, treeVars, tabVars, tableVars, dragVars, bFnWrite>>

SetValue(sForm, aNames, aValues) ==
    /\ LET R == SetValueOp(mapValues, aColumn, sForm, aNames, aValues)
       IN DbCommit(R.map, "SetValue", sForm, aNames, aValues, R.bThrew)
    /\ oDbRet' = DbRetNew
    /\ UNCHANGED <<aColumn, aKeyColumns>>

\* AddValue({name, value})
AddValue(sName, value) ==
    /\ DbCommit(SetValueInternal(mapValues, aColumn, sName, value), "AddValue", "",
                << >>, << >>, FALSE)
    /\ oDbRet' = DbRetNew
    /\ UNCHANGED <<aColumn, aKeyColumns>>

\* mutant: AddColumn leaves the key-column cache as it is
CacheAfterAddColumnKeep(cache) == cache

\* AddColumn: this._aKeyColumns = null (Invalidate key column cache)
CacheAfterAddColumn(cache) == KeyCacheNull

\* AddColumn({sName, bKey}): pushes the column, duplicates included
AddColumn(sName, bKey) ==
    /\ Len(aColumn) < MaxColumns
    /\ aColumn' = Append(aColumn, Column(sName, bKey))
    /\ aKeyColumns' = CacheAfterAddColumn(aKeyColumns)
    /\ oDbRet' = DbRetNew
    /\ DbCommit(mapValues, "AddColumn", "", << >>, << >>, FALSE)

\* AddColumn({sName, default}): a column that carries a default value
AddColumnDefault(sName, default) ==
    /\ Len(aColumn) < MaxColumns
    /\ aColumn' = Append(aColumn, ColumnOf(sName, FALSE, default))
    /\ aKeyColumns' = CacheAfterAddColumn(aKeyColumns)
    /\ oDbRet' = DbRetNew
    /\ DbCommit(mapValues, "AddColumn", "", << >>, << >>, FALSE)

\* this.mapValues.get(sName)
MapGet(map, sName) == IF sName \in DOMAIN map THEN map[sName] ELSE Undefined

\* this.aColumn.filter(col => col.bKey === true)
FilterKey(cols) == SelectSeq(cols, LAMBDA c : c.bKey)

\* _get_key_columns(): the cache when it is set, else the filtered schema
GetKeyColumns(cols, cache) == IF cache.bNull THEN FilterKey(cols) ELSE cache.aCols

\* the cache once _get_key_columns() has run
KeyCacheAfter(cols, cache) == [bNull |-> FALSE, aCols |-> GetKeyColumns(cols, cache)]

ErrNoKey == "No key columns defined"
ErrMultiGet == "Multiple key columns found, use GetValue instead"
ErrMultiSet == "Multiple key columns found, use SetValue instead"
ErrNoWrite == "No write callback registered."

\* a DBRecord call that leaves the schema alone: new values, new cache, result
KeyCommit(map, cache, sOp, ret, sError) ==
    /\ aKeyColumns' = cache
    /\ oDbRet' = [ret |-> ret, sError |-> sError]
    /\ DbCommit(map, sOp, "", << >>, << >>, sError # "")
    /\ UNCHANGED aColumn

\* GetKeyValue()
GetKeyValue ==
    /\ LET K == GetKeyColumns(aColumn, aKeyColumns)
           C == KeyCacheAfter(aColumn, aKeyColumns)
       IN CASE Len(K) = 0 -> KeyCommit(mapValues, C, "GetKeyValue", Undefined, ErrNoKey)
            [] Len(K) > 1 -> KeyCommit(mapValues, C, "GetKeyValue", Undefined, ErrMultiGet)
            [] OTHER -> KeyCommit(mapValues, C, "GetKeyValue", MapGet(mapValues, K[1].sName), "")

\* SetKeyValue(key_)
SetKeyValue(key) ==
    /\ LET K == GetKeyColumns(aColumn, aKeyColumns)
           C == KeyCacheAfter(aColumn, aKeyColumns)
       IN CASE Len(K) = 0 -> KeyCommit(mapValues, C, "SetKeyValue", Undefined, ErrNoKey)
            [] Len(K) > 1 -> KeyCommit(mapValues, C, "SetKeyValue", Undefined, ErrMultiSet)
            [] OTHER -> KeyCommit(SetValueInternal(mapValues, aColumn, K[1].sName, key), C,
                                  "SetKeyValue", Undefined, "")

\* a JavaScript boolean as a value
JsBool(b) == IF b THEN JsTrue ELSE JsFalse

\* HasKeyValue(): some key column's value != null
HasKeyValue ==
    /\ LET K == GetKeyColumns(aColumn, aKeyColumns)
           C == KeyCacheAfter(aColumn, aKeyColumns)
       IN IF Len(K) = 0 THEN KeyCommit(mapValues, C, "HasKeyValue", Undefined, ErrNoKey)
          ELSE KeyCommit(mapValues, C, "HasKeyValue",
                         JsBool(\E i \in DOMAIN K :
                                    MapGet(mapValues, K[i].sName) \notin {Null, Undefined}), "")

\* ClearValues(): every stored value becomes null, then WriteValues() throws when
\* no write callback is registered, and only after it is the cache reset
ClearValues ==
    /\ LET map == [k \in DOMAIN mapValues |-> Null]
       IN IF bFnWrite THEN KeyCommit(map, KeyCacheNull, "ClearValues", Undefined, "")
          ELSE KeyCommit(map, aKeyColumns, "ClearValues", Undefined, ErrNoWrite)

\* this.aColumn.find(column => column.sName === sName), as an index
FindColumn(cols, sName) ==
    CHOOSE i \in DOMAIN cols :
        cols[i].sName = sName /\ \A j \in DOMAIN cols : cols[j].sName = sName => i <= j

\* GetValue(sName): the column's default when the value is undefined or null and
\* the column has a default that is neither
GetValueOp(map, cols, sName) ==
    LET value == MapGet(map, sName)
    IN IF /\ value \in {Undefined, Null}
          /\ HasColumn(cols, sName)
          /\ cols[FindColumn(cols, sName)].default_ \notin {Undefined, Null}
       THEN cols[FindColumn(cols, sName)].default_
       ELSE value

\* GetValue(sName)
GetValue(sName) ==
    /\ KeyCommit(mapValues, aKeyColumns, "GetValue", GetValueOp(mapValues, aColumn, sName), "")

(***************************************************************************)
(*          DBRecord, the earlier definition of the class                  *)
(***************************************************************************)
\* HasKeyValue(): some key column has an entry in the map
EarlierHasKeyValue ==
    /\ LET K == GetKeyColumns(aColumn, aKeyColumns)
           C == KeyCacheAfter(aColumn, aKeyColumns)
       IN IF Len(K) = 0 THEN KeyCommit(mapValues, C, "HasKeyValue", Undefined, ErrNoKey)
          ELSE KeyCommit(mapValues, C, "HasKeyValue",
                         JsBool(\E i \in DOMAIN K : K[i].sName \in DOMAIN mapValues), "")

\* ClearValues(): this.mapValues.clear()
EarlierClearValues ==
    /\ KeyCommit(<< >>, aKeyColumns, "ClearValues", Undefined, "")

ErrNotFunction == "TypeError: this._get_value_index is not a function"

\* SetValue(name_, value_): calls a method the class does not define
EarlierSetValue(sName, value) ==
    /\ KeyCommit(mapValues, aKeyColumns, "SetValue", Undefined, ErrNotFunction)

\* the keys of an object literal: distinct names
DistinctNames == {s \in NameArrays : s # << >> /\ \A i, j \in DOMAIN s : i # j => s[i] # s[j]}

DbLastNew == [sOp |-> "new", sForm |-> "many", oGiven |-> << >>, bThrew |-> FALSE]

\* the column arrays given to the constructor: at most one column, more through AddColumn
InitialColumns == {<< >>} \cup {<<Column(n, FALSE)>> : n \in ColNames}

\* new DBRecord(columns_)
DbInit ==
    /\ aColumn \in InitialColumns
    /\ mapValues = << >>
    /\ oDbLast = DbLastNew
    /\ aKeyColumns = KeyCacheNull
    /\ bFnWrite \in BOOLEAN
    /\ oDbRet = DbRetNew

DbNext ==
    \/ \E n \in ColNames, v \in DbValues : SetValue("string", <<n>>, <<v>>)
    \/ \E aN \in DistinctNames : \E aV \in {s \in ValueArrays : Len(s) = Len(aN)} :
         SetValue("object", aN, aV)
    \/ \E aN \in NameArrays : \E aV \in {s \in ValueArrays : Len(s) = Len(aN)} :
         SetValue("arrays", aN, aV)
    \/ \E aN \in NameArrays : \E aV \in {s \in ValueArrays : Len(s) = Len(aN)} :
         SetValue("nested", aN, aV)
    \/ \E n \in ColNames, v \in DbValues : AddValue(n, v)
    \/ \E n \in ColNames : AddColumn(n, FALSE)

(***************************************************************************)
(*                                 Table                                   *)
(***************************************************************************)
MaxRows == 2            \* a table holds at most this many rows
MaxTableObjects == 6    \* row and column objects created at most

\* ---- cell values: a JavaScript value with its type, its number and its String()
\* strings are sequences of character codes: the digits 0..9, then "a", "b", "#"
StrA == <<10>>
StrB == <<11>>
StrHash == <<12>>

RECURSIVE Digits(_)
\* String(n) for a non-negative integer, as character codes
Digits(n) == IF n < 10 THEN <<n>> ELSE Digits(n \div 10) \o <<n % 10>>

NumCell(n) == [t |-> "number", n |-> n, s |-> Digits(n)]
StrCell(s) == [t |-> "string", n |-> 0, s |-> s]
NullCell == [t |-> "null", n |-> 0, s |-> << >>]
UndefCell == [t |-> "undefined", n |-> 0, s |-> << >>]

\* value == null
IsNullish(c) == c.t \in {"null", "undefined"}

\* a[i] for a 0-based index, undefined outside the array
At(a, i) == IF i + 1 \in DOMAIN a THEN a[i + 1] ELSE UndefCell

RECURSIVE LocaleCompare(_, _)
\* String.prototype.localeCompare on strings of digits and lower-case letters:
\* -1, 0 or 1 by the first character that differs, a prefix first
LocaleCompare(x, y) ==
    IF x = << >> THEN (IF y = << >> THEN 0 ELSE 0 - 1)
    ELSE IF y = << >> THEN 1
    ELSE IF Head(x) < Head(y) THEN 0 - 1
    ELSE IF Head(x) > Head(y) THEN 1
    ELSE LocaleCompare(Tail(x), Tail(y))

\* Number(value) is NaN: undefined and the strings of letters the model uses
IsNaN(c) == c.t \in {"undefined", "string"}

\* a - b as a comparator result: its sign, and 0 when it is NaN
Minus(a, b) ==
    IF IsNaN(a) \/ IsNaN(b) THEN 0
    ELSE IF a.n < b.n THEN 0 - 1 ELSE IF a.n > b.n THEN 1 ELSE 0

\* the comparator of the ascending sort
CompareAsc(bIsString, a, b, iSort) ==
    LET a_ == At(a, iSort)
        b_ == At(b, iSort)
    IN IF bIsString
       THEN IF IsNullish(a_) THEN 0 - 1          \* (a_ == null && bIsString == null) is never true
            ELSE IF IsNullish(b_) THEN 1
            ELSE LocaleCompare(a_.s, b_.s)
       ELSE Minus(a_, b_)

\* the comparator of the descending sort
CompareDesc(bIsString, a, b, iSort) ==
    LET a_ == At(a, iSort)
        b_ == At(b, iSort)
    IN IF bIsString
       THEN IF IsNullish(a_) /\ IsNullish(b_) THEN 0
            ELSE IF IsNullish(a_) THEN 1
            ELSE IF IsNullish(b_) THEN 0 - 1
            ELSE LocaleCompare(b_.s, a_.s)
       ELSE Minus(b_, a_)

Compare(bAsc, bIsString, a, b, iSort) ==
    IF bAsc THEN CompareAsc(bIsString, a, b, iSort) ELSE CompareDesc(bIsString, a, b, iSort)

RECURSIVE InsertSorted(_, _, _, _, _)
\* x placed after the last element that does not compare greater than it
InsertSorted(aSorted, x, bAsc, bIsString, iSort) ==
    IF aSorted = << >> THEN <<x>>
    ELSE LET last == aSorted[Len(aSorted)]
         IN IF Compare(bAsc, bIsString, last, x, iSort) > 0
            THEN Append(InsertSorted(SubSeq(aSorted, 1, Len(aSorted) - 1), x,
                                     bAsc, bIsString, iSort), last)
            ELSE Append(aSorted, x)

RECURSIVE SortRows(_, _, _, _)
\* Array.prototype.sort(comparator): the stable order of a consistent comparator
SortRows(aData, bAsc, bIsString, iSort) ==
    IF aData = << >> THEN << >>
    ELSE InsertSorted(SortRows(SubSeq(aData, 1, Len(aData) - 1), bAsc, bIsString, iSort),
                      aData[Len(aData)], bAsc, bIsString, iSort)

\* new Table.column({sName, sAlias, sType}) as object number id
TableColumn(id, sName, sAlias, sType) ==
    [id |-> id, sName |-> sName, sAlias |-> IF sAlias = << >> THEN sName ELSE sAlias,
     sType |-> IF sType = "" THEN "unknown" ELSE sType]

\* GetColumnType(iColumn)
GetColumnType(T, iColumn) ==
    IF iColumn < 0 \/ iColumn >= Len(T.aColumn) THEN "null" ELSE T.aColumn[iColumn + 1].sType

\* GetHeaderRow()
GetHeaderRow(T) == [j \in DOMAIN T.aColumn |-> StrCell(T.aColumn[j].sAlias)]

\* GetRow(iRow) for a row of the table: one cell per column
GetRow(T, iRow) == [j \in DOMAIN T.aColumn |-> At(T.aTable[iRow + 1].cells, j - 1)]

\* aIndex.map(i => a[i]) for 0-based indexes
PickCells(a, aIndex) == [j \in DOMAIN aIndex |-> At(a, aIndex[j])]

Abs(i) == IF i < 0 THEN 0 - i ELSE i

\* GetData(options_): o.aRows and o.aColumn are [bNull, a], null or an array
GetDataOp(T, o) ==
    LET aAll == [i \in DOMAIN T.aTable |->
                    IF o.bIndex THEN <<NumCell(i - 1)>> \o GetRow(T, i - 1)
                    ELSE GetRow(T, i - 1)]
        aPicked == IF o.aRows.bNull THEN aAll
                   ELSE [j \in DOMAIN o.aRows.a |-> aAll[o.aRows.a[j] + 1]]
        aCut == IF o.aColumn.bNull THEN aPicked
                ELSE [j \in DOMAIN aPicked |-> PickCells(aPicked[j], o.aColumn.a)]
        iFirstColumn == IF o.bIndex THEN 1 ELSE 0
        bIsString == GetColumnType(T, iFirstColumn) = "string"
        aSorted == IF o.iSort = 0 THEN aCut
                   ELSE SortRows(aCut, o.iSort > 0, bIsString, Abs(o.iSort) - iFirstColumn)
        aHeader0 == GetHeaderRow(T)
        aHeader1 == IF o.aColumn.bNull THEN aHeader0 ELSE PickCells(aHeader0, o.aColumn.a)
        aHeader == IF o.bIndex THEN <<StrCell(StrHash)>> \o aHeader1 ELSE aHeader1
    IN IF o.bHeader THEN <<aHeader>> \o aSorted ELSE aSorted

TableLastNew == [sOp |-> "new", iTable |-> 0, o |-> << >>, aData |-> << >>]

\* "ab", the alias of the second column of the tables read with GetData
StrAB == StrA \o StrB

\* the column arrays of the tables read with GetData: a string column and a number
\* column, in either order
DataLayouts ==
    {<<TableColumn(1, StrA, << >>, "string"), TableColumn(2, StrB, StrAB, "number")>>,
     <<TableColumn(1, StrA, << >>, "number"), TableColumn(2, StrB, StrAB, "string")>>}

\* the cells a column of a type holds
CellsOfType(sType) ==
    IF sType = "string" THEN {StrCell(StrA), StrCell(StrB), NullCell}
    ELSE {NumCell(2), NumCell(10)}

\* the rows of a table with the columns aCols: every cell of its column's type
RowsOf(aCols) ==
    {c \in [DOMAIN aCols -> CellsOfType("string") \cup CellsOfType("number")] :
        \A j \in DOMAIN aCols : c[j] \in CellsOfType(aCols[j].sType)}

\* the tables with the columns aCols: at most MaxRows rows, at most one null cell
TablesOf(aCols) ==
    {[aColumn |-> aCols, aTable |-> [i \in DOMAIN r |-> [id |-> 2 + i, cells |-> r[i]]]] :
        r \in {q \in UNION {[1..n -> RowsOf(aCols)] : n \in 0..MaxRows} :
                  Cardinality({i \in DOMAIN q : \E j \in DOMAIN q[i] : q[i][j] = NullCell}) <= 1}}

\* the tables read with GetData
DataTables == UNION {TablesOf(aCols) : aCols \in DataLayouts}

\* null, or an array of indexes
NoArray == [bNull |-> TRUE, a |-> << >>]
ArrayOf(a) == [bNull |-> FALSE, a |-> a]

\* the cells of a row that GetData returns before it selects columns
RowWidth(T, o) == Len(T.aColumn) + (IF o.bIndex THEN 1 ELSE 0)

\* the cells of a row that GetData returns
DataWidth(T, o) == IF o.aColumn.bNull THEN RowWidth(T, o) ELSE Len(o.aColumn.a)

\* the position GetData sorts by
SortPosition(o) == Abs(o.iSort) - (IF o.bIndex THEN 1 ELSE 0)

\* the options GetData is called with on the table T: row indexes of rows that
\* exist, column indexes of cells that exist, a sort position inside the row
DataOptions(T) ==
    {o \in [bHeader : BOOLEAN, bIndex : BOOLEAN, iSort : (0 - 2)..2,
            aRows : {NoArray, ArrayOf(<<1, 0>>)},
            aColumn : {NoArray, ArrayOf(<<0>>), ArrayOf(<<1, 0>>)}] :
        /\ o.aRows.bNull \/ \A j \in DOMAIN o.aRows.a : o.aRows.a[j] < Len(T.aTable)
        /\ o.aColumn.bNull \/ \A j \in DOMAIN o.aColumn.a : o.aColumn.a[j] < RowWidth(T, o)
        /\ o.iSort = 0 \/ SortPosition(o) \in 0..(DataWidth(T, o) - 1)}

\* GetData(options_) on the first table
GetData(o) ==
    /\ oTableLast' = [sOp |-> "GetData", iTable |-> 1, o |-> o, aData |-> GetDataOp(oTables[1], o)]
    /\ UNCHANGED <<oTables, iTableObjects, toastVars, treeVars, tabVars, dbVars, dragVars>>

\* ---- operations that change a table; a row array and a column object that two
\* tables hold (the same id) are one object, changed for both
TableCommit(tables, iObjects, sOp, iTable) ==
    /\ oTables' = tables
    /\ iTableObjects' = iObjects
    /\ oTableLast' = [sOp |-> sOp, iTable |-> iTable, o |-> << >>, aData |-> << >>]
    /\ UNCHANGED <<toastVars, treeVars, tabVars, dbVars, dragVars>>

\* Size()
Size(T) == Len(T.aTable)

\* a clone that holds the row array of the table it was cloned from
ClonedRowShared(aRow, id) == aRow

\* [...aRow]: a new array with the cells of aRow
ClonedRow(aRow, id) == [id |-> id, cells |-> aRow.cells]

\* new Table.column({sName: column_.sName, sAlias: column_.sAlias, sType: column_.sType})
ClonedColumn(column_, id) == TableColumn(id, column_.sName, column_.sAlias, column_.sType)

\* the row indexes Clone walks: aRows, or iBegin .. min(iBegin + iCount, Size()) - 1
CloneIndices(T, rows_) ==
    IF ~rows_.aRows.bNull THEN rows_.aRows.a
    ELSE LET iEnd == IF rows_.iBegin + rows_.iCount < Size(T)
                     THEN rows_.iBegin + rows_.iCount ELSE Size(T)
         IN [k \in 1..(IF iEnd > rows_.iBegin THEN iEnd - rows_.iBegin ELSE 0) |->
                rows_.iBegin + k - 1]

\* the callback_ of the model: it keeps the rows whose first cell is a number
CallbackKeeps(aRow) == At(aRow.cells, 0).t = "number"

RECURSIVE CloneRows(_, _, _, _)
\* the loop of Clone over aRowIndices: skip invalid indexes and rows the callback
\* rejects, push a copy of every other row; id is the last object number used
CloneRows(T, rows_, aRowIndices, id) ==
    IF aRowIndices = << >> THEN << >>
    ELSE LET iRowIndex == Head(aRowIndices)
         IN IF iRowIndex < 0 \/ iRowIndex >= Size(T)
            THEN CloneRows(T, rows_, Tail(aRowIndices), id)
            ELSE IF rows_.bCallback /\ ~CallbackKeeps(T.aTable[iRowIndex + 1])
            THEN CloneRows(T, rows_, Tail(aRowIndices), id)
            ELSE <<ClonedRow(T.aTable[iRowIndex + 1], id + 1)>>
                 \o CloneRows(T, rows_, Tail(aRowIndices), id + 1)

\* Clone(rows_) as a value: the new table
CloneOp(T, rows_, id) ==
    LET aClonedColumns == [j \in DOMAIN T.aColumn |-> ClonedColumn(T.aColumn[j], id + j)]
    IN [aColumn |-> aClonedColumns,
        aTable |-> CloneRows(T, rows_, CloneIndices(T, rows_), id + Len(T.aColumn))]

\* const tableClone = oTables[1].Clone(rows_)
Clone(rows_) ==
    LET T == CloneOp(oTables[1], rows_, iTableObjects)
    IN /\ Len(oTables) = 1
       /\ iTableObjects + Len(T.aColumn) + Len(T.aTable) <= MaxTableObjects
       /\ oTableLast' = [sOp |-> "Clone", iTable |-> 1, o |-> rows_, aData |-> << >>]
       /\ oTables' = Append(oTables, T)
       /\ iTableObjects' = iTableObjects + Len(T.aColumn) + Len(T.aTable)
       /\ UNCHANGED <<toastVars, treeVars, tabVars, dbVars, dragVars>>

\* Add(table_) with one row array that nothing else holds
Add(iTable, cells) ==
    /\ iTableObjects < MaxTableObjects
    /\ Size(oTables[iTable]) < MaxRows
    /\ TableCommit([oTables EXCEPT ![iTable].aTable =
                        Append(@, [id |-> iTableObjects + 1, cells |-> cells])],
                   iTableObjects + 1, "Add", iTable)

\* aTable.splice(iPosition, iLength): a negative or missing count removes nothing
Splice(a, iPosition, iLength) ==
    LET iFrom == IF iPosition > Len(a) THEN Len(a) ELSE iPosition
        iMost == Len(a) - iFrom
        iGone == IF iLength < 0 THEN 0 ELSE IF iLength > iMost THEN iMost ELSE iLength
    IN SubSeq(a, 1, iFrom) \o SubSeq(a, iFrom + iGone + 1, Len(a))

\* Delete(iPosition, iLength)
Delete(iTable, iPosition, iLength) ==
    LET iRows == Size(oTables[iTable])
        iMaxLength == iRows - iPosition
        iLength1 == IF iLength = 0 THEN 1 ELSE iLength
        iLength2 == IF iLength1 < iMaxLength THEN iLength1 ELSE iMaxLength
    IN /\ TableCommit([oTables EXCEPT ![iTable].aTable = Splice(@, iPosition, iLength2)],
                      iTableObjects, "Delete", iTable)

\* Clear()
Clear(iTable) ==
    /\ TableCommit([oTables EXCEPT ![iTable].aTable = << >>], iTableObjects, "Clear", iTable)

\* a[i] = value for the array object id, in every table that holds it
WriteRow(tables, id, iColumn, value) ==
    [t \in DOMAIN tables |->
        [tables[t] EXCEPT !.aTable =
            [i \in DOMAIN @ |->
                IF @[i].id = id
                THEN [@[i] EXCEPT !.cells =
                        [j \in 1..(IF iColumn + 1 > Len(@) THEN iColumn + 1 ELSE Len(@)) |->
                            IF j = iColumn + 1 THEN value ELSE At(@, j - 1)]]
                ELSE @[i]]]]

\* SetCellValue(iRow, iColumn, value_)
SetCellValue(iTable, iRow, iColumn, value) ==
    LET T == oTables[iTable]
    IN /\ IF iRow < 0 \/ iRow >= Size(T) \/ iColumn < 0 \/ iColumn >= Len(T.aColumn)
          THEN TableCommit(oTables, iTableObjects, "SetCellValue", iTable)
          ELSE TableCommit(WriteRow(oTables, T.aTable[iRow + 1].id, iColumn, value),
                           iTableObjects, "SetCellValue", iTable)

\* column.sType = sType for the column object id, in every table that holds it
WriteColumnType(tables, id, sType) ==
    [t \in DOMAIN tables |->
        [tables[t] EXCEPT !.aColumn =
            [j \in DOMAIN @ |-> IF @[j].id = id THEN [@[j] EXCEPT !.sType = sType] ELSE @[j]]]]

\* the type ParseRowTypesToColumns detects: typeof, and "number" for numeric strings
DetectedType(v_) ==
    IF v_.t = "string" /\ \A k \in DOMAIN v_.s : v_.s[k] < 10 THEN "number" ELSE v_.t

RECURSIVE ParseTypes(_, _, _, _)
\* the loop of ParseRowTypesToColumns from column i on
ParseTypes(tables, iTable, aRow, i) ==
    IF i >= Len(aRow) THEN tables
    ELSE LET v_ == At(aRow, i)
             aCols == tables[iTable].aColumn
         IN IF IsNullish(v_) \/ v_ = StrCell(<< >>) THEN ParseTypes(tables, iTable, aRow, i + 1)
            ELSE IF i < Len(aCols) /\ aCols[i + 1].sType = "unknown"
            THEN ParseTypes(WriteColumnType(tables, aCols[i + 1].id, DetectedType(v_)),
                            iTable, aRow, i + 1)
            ELSE ParseTypes(tables, iTable, aRow, i + 1)

\* ParseRowTypesToColumns(row_) with the index of a row
ParseRowTypesToColumns(iTable, row_) ==
    LET T == oTables[iTable]
        iRow == IF Size(T) = 1 THEN 0 ELSE row_
    IN /\ iRow < Size(T)
       /\ TableCommit(ParseTypes(oTables, iTable, GetRow(T, iRow), 0),
                      iTableObjects, "ParseRowTypesToColumns", iTable)

\* the tables cloned: one column of unknown or string type, rows of one cell
CloneCells == {NumCell(2), StrCell(StrA)}

CloneTables ==
    {[aColumn |-> <<TableColumn(1, StrA, << >>, sType)>>,
      aTable |-> [i \in DOMAIN r |-> [id |-> 1 + i, cells |-> <<r[i]>>]]] :
        sType \in {"", "string"},
        r \in UNION {[1..n -> CloneCells] : n \in 0..2}}

\* the arguments Clone is given: none, a range, row indexes, a callback
CloneOptions ==
    [aRows : {NoArray, ArrayOf(<<1, 0>>), ArrayOf(<<0 - 1, 1, 5>>)},
     iBegin : {0, 1}, iCount : 0..MaxRows, bCallback : BOOLEAN]

\* the defaults of Clone's argument: Clone() is Clone(CloneDefaults(T))
CloneDefaults(T) == [aRows |-> NoArray, iBegin |-> 0, iCount |-> Size(T), bCallback |-> FALSE]

\* cloning a table, then changing the table and its clone
TableCloneNext ==
    \/ \E rows_ \in CloneOptions : Clone(rows_)
    \/ \E t \in DOMAIN oTables, c \in CloneCells : Add(t, <<c>>)
    \/ \E t \in DOMAIN oTables, iPosition \in 0..1, iLength \in 0..2 : Delete(t, iPosition, iLength)
    \/ \E t \in DOMAIN oTables : Clear(t)
    \/ \E t \in DOMAIN oTables, iRow \in 0..1, c \in CloneCells : SetCellValue(t, iRow, 0, c)
    \/ \E t \in DOMAIN oTables, row_ \in 0..1 : ParseRowTypesToColumns(t, row_)

TableInit ==
    /\ oTables \in {<<T>> : T \in DataTables}
    /\ iTableObjects = 2 + MaxRows
    /\ oTableLast = TableLastNew

\* reading the table with every option
TableDataNext ==
    \/ \E o \in DataOptions(oTables[1]) : GetData(o)

(***************************************************************************)
(*                               UIDraggable                               *)
(***************************************************************************)
MaxCoord == 2           \* pointer coordinates are 1..MaxCoord
MaxPos == 2             \* positions stay within -MaxPos..MaxPos
GridSize == 2           \* the iGridSize the snapping draggable is given
ViewportRoom == 1       \* window.innerWidth - offsetWidth, and the same for the height

DragCoords == 1..MaxCoord
DragPositions == (0 - MaxPos)..MaxPos

\* the fields after the constructor: the element has no computed top or left
DragNew ==
    [bDragging |-> FALSE, iInitialX |-> 0, iInitialY |-> 0,
     iCurrentX |-> 0, iCurrentY |-> 0, iXOffset |-> 0, iYOffset |-> 0,
     iStyleX |-> 0, iStyleY |-> 0]

\* the defaults of the options: no snapping, no bounds, no callbacks
DragDefaults ==
    [bSnapToGrid |-> FALSE, bBounds |-> FALSE,
     fnOnDragStart |-> FALSE, fnOnDragMove |-> FALSE, fnOnDragEnd |-> FALSE]

DragLastNew == [sOp |-> "new", aCalls |-> << >>]

\* a draggable that reports a drag in progress at all times
IsDraggingAlways(o) == TRUE

\* get dragging()
IsDragging(o) == o.bDragging

\* Math.round(i / iGridSize) * iGridSize
SnapToGrid(i, iGridSize) == ((2 * i + iGridSize) \div (2 * iGridSize)) * iGridSize

\* Math.max(0, Math.min(room, i)): _apply_bounds against the viewport
ApplyBounds(i) ==
    LET iMin == IF ViewportRoom < i THEN ViewportRoom ELSE i
    IN IF iMin < 0 THEN 0 ELSE iMin

\* the callbacks configured among those a handler reaches
DragCalls(aReached) == SelectSeq(aReached, LAMBDA c : oDragOptions[c])

\* bDragOpen after the calls of one handler
OpenAfter(bOpen, aCalls) ==
    IF aCalls = << >> THEN bOpen
    ELSE LET c == aCalls[Len(aCalls)]
         IN IF c = "fnOnDragEnd" THEN FALSE
            ELSE IF c = "fnOnDragStart" THEN TRUE ELSE bOpen

DragCommit(o, sOp, aCalls) ==
    /\ oDrag' = o
    /\ oDragLast' = [sOp |-> sOp, aCalls |-> aCalls]
    /\ bDragOpen' = OpenAfter(bDragOpen, aCalls)
    /\ UNCHANGED <<oDragOptions, toastVars, treeVars, tabVars, dbVars, tableVars>>

\* _on_pointer_down(eEvent_): the target is the handle or inside it, or not
PointerDown(bOnHandle, iClientX, iClientY) ==
    /\ iClientX - oDrag.iXOffset \in DragPositions
    /\ iClientY - oDrag.iYOffset \in DragPositions
    /\ IF ~bOnHandle THEN DragCommit(oDrag, "down", << >>)
       ELSE DragCommit([oDrag EXCEPT !.iInitialX = iClientX - oDrag.iXOffset,
                                     !.iInitialY = iClientY - oDrag.iYOffset,
                                     !.bDragging = TRUE],
                       "down", DragCalls(<<"fnOnDragStart">>))

\* the position _on_pointer_move computes for one axis
MovePosition(iClient, iInitial) ==
    LET iNew == iClient - iInitial
        iSnapped == IF oDragOptions.bSnapToGrid THEN SnapToGrid(iNew, GridSize) ELSE iNew
    IN IF oDragOptions.bBounds THEN ApplyBounds(iSnapped) ELSE iSnapped

\* _on_pointer_move(eEvent_)
PointerMove(iClientX, iClientY) ==
    LET iNewX == MovePosition(iClientX, oDrag.iInitialX)
        iNewY == MovePosition(iClientY, oDrag.iInitialY)
    IN /\ iNewX \in DragPositions
       /\ iNewY \in DragPositions
       /\ IF ~IsDragging(oDrag) THEN DragCommit(oDrag, "move", << >>)
          ELSE DragCommit([oDrag EXCEPT !.iCurrentX = iNewX, !.iCurrentY = iNewY,
                                        !.iXOffset = iNewX, !.iYOffset = iNewY,
                                        !.iStyleX = iNewX, !.iStyleY = iNewY],
                          "move", DragCalls(<<"fnOnDragMove">>))

\* _on_pointer_up()
PointerUp ==
    /\ IF ~IsDragging(oDrag) THEN DragCommit(oDrag, "up", << >>)
       ELSE DragCommit([oDrag EXCEPT !.bDragging = FALSE,
                                     !.iInitialX = oDrag.iCurrentX,
                                     !.iInitialY = oDrag.iCurrentY,
                                     !.iStyleX = oDrag.iCurrentX,
                                     !.iStyleY = oDrag.iCurrentY],
                       "up", DragCalls(<<"fnOnDragEnd">>))

\* the fields after SetPosition(iX, iY)
PositionSet(o, iX, iY) ==
    [o EXCEPT !.iCurrentX = iX, !.iCurrentY = iY, !.iXOffset = iX, !.iYOffset = iY,
              !.iStyleX = iX, !.iStyleY = iY]

\* SetPosition(iX, iY)
SetPosition(iX, iY) ==
    /\ DragCommit(PositionSet(oDrag, iX, iY), "SetPosition", << >>)

\* ResetPosition()
ResetPosition ==
    /\ DragCommit(PositionSet(PositionSet(oDrag, 0, 0), 0, 0), "ResetPosition", << >>)

DragInit ==
    /\ oDrag = DragNew
    /\ oDragOptions \in [bSnapToGrid : BOOLEAN, bBounds : BOOLEAN,
                         fnOnDragStart : {TRUE}, fnOnDragMove : {TRUE}, fnOnDragEnd : {TRUE}]
    /\ oDragLast = DragLastNew
    /\ bDragOpen = FALSE

DragNext ==
    \/ \E b \in BOOLEAN, x \in DragCoords, y \in DragCoords : PointerDown(b, x, y)
    \/ \E x \in DragCoords, y \in DragCoords : PointerMove(x, y)
    \/ PointerUp
    \/ \E x \in DragCoords, y \in DragCoords : SetPosition(x, y)
    \/ ResetPosition

(***************************************************************************)
(*                            Specifications                               *)
(***************************************************************************)
\* every component freshly constructed, with any of the modelled options
Init == ToastInit /\ TreeInit /\ TabInit /\ DbInit /\ TableInit /\ DragInit

Next ==
    \/ ToastNext \/ TreeNext \/ TreeExpandNext \/ TabNext \/ DbNext
    \/ TableDataNext \/ TableCloneNext \/ DragNext

Spec == Init /\ [][Next]_vars

\* a UIToast constructed with iMaxStack in StackChoices; the other components idle
InitToast ==
    /\ toasts = << >> /\ aToasts = << >> /\ bToastDestroyed = FALSE
    /\ iMaxStack \in StackChoices \cup {DefaultMaxStack}
    /\ oNodes = << >> /\ aRoots = << >> /\ aSelected = << >> /\ aLazyPending = {}
    /\ oTreeLast = TreeLastNew /\ oTreeOptions = TreeDefaults
    /\ aTabs = << >> /\ iActiveIndex = 0 - 1 /\ iTabCreated = 0
    /\ oTabLast = TabLastNew /\ oTabStyle = TabStyleDefaults
    /\ aColumn = << >> /\ mapValues = << >> /\ oDbLast = DbLastNew
    /\ aKeyColumns = KeyCacheNull /\ bFnWrite = FALSE /\ oDbRet = DbRetNew
    /\ oTables = << >> /\ iTableObjects = 0 /\ oTableLast = TableLastNew
    /\ oDrag = DragNew /\ oDragOptions = DragDefaults /\ oDragLast = DragLastNew
    /\ bDragOpen = FALSE

\* the options a UITree is constructed with in SpecTree and in SpecTreeExpand
SelectOptions == [bMultiSelect : BOOLEAN, bExpandAll : {FALSE}, bCallback : {FALSE}]
ExpandOptions == [bMultiSelect : {FALSE}, bExpandAll : BOOLEAN, bCallback : BOOLEAN]

\* a UITree constructed for selection; the other components idle
InitTree ==
    /\ toasts = << >> /\ aToasts = << >> /\ bToastDestroyed = FALSE
    /\ iMaxStack = DefaultMaxStack
    /\ oNodes = << >> /\ aRoots = << >> /\ aSelected = << >> /\ aLazyPending = {}
    /\ oTreeLast = TreeLastNew /\ oTreeOptions \in SelectOptions
    /\ aTabs = << >> /\ iActiveIndex = 0 - 1 /\ iTabCreated = 0
    /\ oTabLast = TabLastNew /\ oTabStyle = TabStyleDefaults
    /\ aColumn = << >> /\ mapValues = << >> /\ oDbLast = DbLastNew
    /\ aKeyColumns = KeyCacheNull /\ bFnWrite = FALSE /\ oDbRet = DbRetNew
    /\ oTables = << >> /\ iTableObjects = 0 /\ oTableLast = TableLastNew
    /\ oDrag = DragNew /\ oDragOptions = DragDefaults /\ oDragLast = DragLastNew
    /\ bDragOpen = FALSE

\* a UITree constructed for expansion; the other components idle
InitTreeExpand ==
    /\ toasts = << >> /\ aToasts = << >> /\ bToastDestroyed = FALSE
    /\ iMaxStack = DefaultMaxStack
    /\ oNodes = << >> /\ aRoots = << >> /\ aSelected = << >> /\ aLazyPending = {}
    /\ oTreeLast = TreeLastNew /\ oTreeOptions \in ExpandOptions
    /\ aTabs = << >> /\ iActiveIndex = 0 - 1 /\ iTabCreated = 0
    /\ oTabLast = TabLastNew /\ oTabStyle = TabStyleDefaults
    /\ aColumn = << >> /\ mapValues = << >> /\ oDbLast = DbLastNew
    /\ aKeyColumns = KeyCacheNull /\ bFnWrite = FALSE /\ oDbRet = DbRetNew
    /\ oTables = << >> /\ iTableObjects = 0 /\ oTableLast = TableLastNew
    /\ oDrag = DragNew /\ oDragOptions = DragDefaults /\ oDragLast = DragLastNew
    /\ bDragOpen = FALSE

\* a UITabControl constructed with any of the styles; the other components idle
InitTabs ==
    /\ toasts = << >> /\ aToasts = << >> /\ bToastDestroyed = FALSE
    /\ iMaxStack = DefaultMaxStack
    /\ oNodes = << >> /\ aRoots = << >> /\ aSelected = << >> /\ aLazyPending = {}
    /\ oTreeLast = TreeLastNew /\ oTreeOptions = TreeDefaults
    /\ aTabs = << >> /\ iActiveIndex = 0 - 1 /\ iTabCreated = 0
    /\ oTabLast = TabLastNew /\ oTabStyle \in TabStyles
    /\ aColumn = << >> /\ mapValues = << >> /\ oDbLast = DbLastNew
    /\ aKeyColumns = KeyCacheNull /\ bFnWrite = FALSE /\ oDbRet = DbRetNew
    /\ oTables = << >> /\ iTableObjects = 0 /\ oTableLast = TableLastNew
    /\ oDrag = DragNew /\ oDragOptions = DragDefaults /\ oDragLast = DragLastNew
    /\ bDragOpen = FALSE

\* a DBRecord constructed with at most one column; the other components idle
InitDb ==
    /\ toasts = << >> /\ aToasts = << >> /\ bToastDestroyed = FALSE
    /\ iMaxStack = DefaultMaxStack
    /\ oNodes = << >> /\ aRoots = << >> /\ aSelected = << >> /\ aLazyPending = {}
    /\ oTreeLast = TreeLastNew /\ oTreeOptions = TreeDefaults
    /\ aTabs = << >> /\ iActiveIndex = 0 - 1 /\ iTabCreated = 0
    /\ oTabLast = TabLastNew /\ oTabStyle = TabStyleDefaults
    /\ aColumn \in InitialColumns /\ mapValues = << >> /\ oDbLast = DbLastNew
    /\ aKeyColumns = KeyCacheNull /\ bFnWrite = FALSE /\ oDbRet = DbRetNew
    /\ oTables = << >> /\ iTableObjects = 0 /\ oTableLast = TableLastNew
    /\ oDrag = DragNew /\ oDragOptions = DragDefaults /\ oDragLast = DragLastNew
    /\ bDragOpen = FALSE

SpecToast == InitToast /\ [][ToastNext]_vars
SpecTree  == InitTree /\ [][TreeNext]_vars
SpecTreeExpand == InitTreeExpand /\ [][TreeExpandNext]_vars
SpecTabs  == InitTabs /\ [][TabNext]_vars
SpecDb    == InitDb /\ [][DbNext]_vars

\* the column names of records used through their key
KeyNames == {"FAlias", "FName"}

\* the column arrays given to the constructor when keys matter: names are unique
KeyColumns ==
    {s \in UNION {[1..n -> {Column(c, k) : c \in KeyNames, k \in BOOLEAN}] : n \in 0..MaxColumns} :
        \A i, j \in DOMAIN s : i # j => s[i].sName # s[j].sName}

\* a DBRecord constructed with at most one column, key or not, with or without fnWrite
InitDbKey ==
    /\ toasts = << >> /\ aToasts = << >> /\ bToastDestroyed = FALSE
    /\ iMaxStack = DefaultMaxStack
    /\ oNodes = << >> /\ aRoots = << >> /\ aSelected = << >> /\ aLazyPending = {}
    /\ oTreeLast = TreeLastNew /\ oTreeOptions = TreeDefaults
    /\ aTabs = << >> /\ iActiveIndex = 0 - 1 /\ iTabCreated = 0
    /\ oTabLast = TabLastNew /\ oTabStyle = TabStyleDefaults
    /\ aColumn \in {s \in KeyColumns : Len(s) <= 1}
    /\ mapValues = << >> /\ oDbLast = DbLastNew
    /\ aKeyColumns = KeyCacheNull /\ bFnWrite \in BOOLEAN /\ oDbRet = DbRetNew
    /\ oTables = << >> /\ iTableObjects = 0 /\ oTableLast = TableLastNew
    /\ oDrag = DragNew /\ oDragOptions = DragDefaults /\ oDragLast = DragLastNew
    /\ bDragOpen = FALSE

\* the key operations of DBRecord, with the schema growing
DbKeyNext ==
    \/ \E n \in KeyNames, k \in BOOLEAN : AddColumn(n, k)
    \/ \E n \in KeyNames, v \in DbValues : SetValue("string", <<n>>, <<v>>)
    \/ \E v \in DbValues : SetKeyValue(v)
    \/ GetKeyValue
    \/ HasKeyValue
    \/ ClearValues

SpecDbKey == InitDbKey /\ [][DbKeyNext]_vars

\* the defaults a column definition is given: none, null, falsy values, a string
DefaultChoices == {Undefined, Null, JsZero, JsFalse, JsEmpty, "string:d1"}

\* a DBRecord constructed without columns; columns with defaults are added
InitDbDefault ==
    /\ toasts = << >> /\ aToasts = << >> /\ bToastDestroyed = FALSE
    /\ iMaxStack = DefaultMaxStack
    /\ oNodes = << >> /\ aRoots = << >> /\ aSelected = << >> /\ aLazyPending = {}
    /\ oTreeLast = TreeLastNew /\ oTreeOptions = TreeDefaults
    /\ aTabs = << >> /\ iActiveIndex = 0 - 1 /\ iTabCreated = 0
    /\ oTabLast = TabLastNew /\ oTabStyle = TabStyleDefaults
    /\ aColumn = << >> /\ mapValues = << >> /\ oDbLast = DbLastNew
    /\ aKeyColumns = KeyCacheNull /\ bFnWrite \in BOOLEAN /\ oDbRet = DbRetNew
    /\ oTables = << >> /\ iTableObjects = 0 /\ oTableLast = TableLastNew
    /\ oDrag = DragNew /\ oDragOptions = DragDefaults /\ oDragLast = DragLastNew
    /\ bDragOpen = FALSE

\* reading values of columns that have defaults
DbDefaultNext ==
    \/ \E n \in KeyNames, d \in DefaultChoices : AddColumnDefault(n, d)
    \/ \E n \in KeyNames, v \in DbValues : SetValue("string", <<n>>, <<v>>)
    \/ \E n \in KeyNames : GetValue(n)
    \/ ClearValues

SpecDbDefault == InitDbDefault /\ [][DbDefaultNext]_vars

\* a DBRecord of the earlier definition, constructed with any of the column arrays
InitDbEarlier ==
    /\ toasts = << >> /\ aToasts = << >> /\ bToastDestroyed = FALSE
    /\ iMaxStack = DefaultMaxStack
    /\ oNodes = << >> /\ aRoots = << >> /\ aSelected = << >> /\ aLazyPending = {}
    /\ oTreeLast = TreeLastNew /\ oTreeOptions = TreeDefaults
    /\ aTabs = << >> /\ iActiveIndex = 0 - 1 /\ iTabCreated = 0
    /\ oTabLast = TabLastNew /\ oTabStyle = TabStyleDefaults
    /\ aColumn \in KeyColumns
    /\ mapValues = << >> /\ oDbLast = DbLastNew
    /\ aKeyColumns = KeyCacheNull /\ bFnWrite = FALSE /\ oDbRet = DbRetNew
    /\ oTables = << >> /\ iTableObjects = 0 /\ oTableLast = TableLastNew
    /\ oDrag = DragNew /\ oDragOptions = DragDefaults /\ oDragLast = DragLastNew
    /\ bDragOpen = FALSE

\* the operations of the earlier definition: the schema is fixed at construction
DbEarlierNext ==
    \/ \E v \in DbValues : SetKeyValue(v)
    \/ GetKeyValue
    \/ EarlierHasKeyValue
    \/ EarlierClearValues
    \/ \E n \in KeyNames, v \in DbValues : EarlierSetValue(n, v)

SpecDbEarlier == InitDbEarlier /\ [][DbEarlierNext]_vars

\* a Table with two columns and up to MaxRows rows; the other components idle
InitTableData ==
    /\ toasts = << >> /\ aToasts = << >> /\ bToastDestroyed = FALSE
    /\ iMaxStack = DefaultMaxStack
    /\ oNodes = << >> /\ aRoots = << >> /\ aSelected = << >> /\ aLazyPending = {}
    /\ oTreeLast = TreeLastNew /\ oTreeOptions = TreeDefaults
    /\ aTabs = << >> /\ iActiveIndex = 0 - 1 /\ iTabCreated = 0
    /\ oTabLast = TabLastNew /\ oTabStyle = TabStyleDefaults
    /\ aColumn = << >> /\ mapValues = << >> /\ oDbLast = DbLastNew
    /\ aKeyColumns = KeyCacheNull /\ bFnWrite = FALSE /\ oDbRet = DbRetNew
    /\ oTables \in {<<T>> : T \in DataTables}
    /\ iTableObjects = 2 + MaxRows /\ oTableLast = TableLastNew
    /\ oDrag = DragNew /\ oDragOptions = DragDefaults /\ oDragLast = DragLastNew
    /\ bDragOpen = FALSE

SpecTableData == InitTableData /\ [][TableDataNext]_vars

\* a Table with one column and up to two rows; the other components idle
InitTableClone ==
    /\ toasts = << >> /\ aToasts = << >> /\ bToastDestroyed = FALSE
    /\ iMaxStack = DefaultMaxStack
    /\ oNodes = << >> /\ aRoots = << >> /\ aSelected = << >> /\ aLazyPending = {}
    /\ oTreeLast = TreeLastNew /\ oTreeOptions = TreeDefaults
    /\ aTabs = << >> /\ iActiveIndex = 0 - 1 /\ iTabCreated = 0
    /\ oTabLast = TabLastNew /\ oTabStyle = TabStyleDefaults
    /\ aColumn = << >> /\ mapValues = << >> /\ oDbLast = DbLastNew
    /\ aKeyColumns = KeyCacheNull /\ bFnWrite = FALSE /\ oDbRet = DbRetNew
    /\ oTables \in {<<T>> : T \in CloneTables}
    /\ iTableObjects = 1 + Len(oTables[1].aTable) /\ oTableLast = TableLastNew
    /\ oDrag = DragNew /\ oDragOptions = DragDefaults /\ oDragLast = DragLastNew
    /\ bDragOpen = FALSE

SpecTableClone == InitTableClone /\ [][TableCloneNext]_vars

\* a UIDraggable with all three callbacks, with or without snapping and bounds
InitDrag ==
    /\ toasts = << >> /\ aToasts = << >> /\ bToastDestroyed = FALSE
    /\ iMaxStack = DefaultMaxStack
    /\ oNodes = << >> /\ aRoots = << >> /\ aSelected = << >> /\ aLazyPending = {}
    /\ oTreeLast = TreeLastNew /\ oTreeOptions = TreeDefaults
    /\ aTabs = << >> /\ iActiveIndex = 0 - 1 /\ iTabCreated = 0
    /\ oTabLast = TabLastNew /\ oTabStyle = TabStyleDefaults
    /\ aColumn = << >> /\ mapValues = << >> /\ oDbLast = DbLastNew
    /\ aKeyColumns = KeyCacheNull /\ bFnWrite = FALSE /\ oDbRet = DbRetNew
    /\ oTables = << >> /\ iTableObjects = 0 /\ oTableLast = TableLastNew
    /\ oDrag = DragNew /\ oDragLast = DragLastNew /\ bDragOpen = FALSE
    /\ oDragOptions \in [bSnapToGrid : BOOLEAN, bBounds : BOOLEAN,
                         fnOnDragStart : {TRUE}, fnOnDragMove : {TRUE}, fnOnDragEnd : {TRUE}]

SpecDrag == InitDrag /\ [][DragNext]_vars

\* timers that are pending do fire: the browser's event loop runs every timeout
FairToast ==
    /\ SpecToast
    /\ \A t \in ToastIds : WF_vars(TimeoutFires(t))
    /\ \A t \in ToastIds : WF_vars(RemovalFires(t))

(***************************************************************************)
(*                          Properties: UIToast                            *)
(***************************************************************************)
\* C1: in every reachable state GetActiveCount() is at most the configured iMaxStack
C1_ActiveWithinMaxStack == GetActiveCount <= iMaxStack

\* C2: a toast is dismissed at most once: for every toast the fnOnClose calls made
\* plus those still scheduled number at most one, and the argument of the call is
\* true exactly when the auto-dismiss timeout fired for that toast
C2_DismissedOnce ==
    \A t \in DOMAIN toasts :
        /\ Len(toasts[t].aOnClose) + Len(toasts[t].aRemoval) <= 1
        /\ \A i \in DOMAIN toasts[t].aOnClose :
               toasts[t].aOnClose[i] = (toasts[t].sTimer = "fired")

\* C2 witness: one toast closed by its timeout (argument true), another one closed
\* otherwise while its timeout was pending (argument false)
C2_Witness ==
    \E t, u \in DOMAIN toasts :
        /\ toasts[t].aOnClose = <<TRUE>>
        /\ toasts[u].aOnClose = <<FALSE>> /\ toasts[u].sTimer = "cleared"

\* the toast is gone: not counted, not in the container, fnOnClose called
Dismissed(t) ==
    /\ t \in DOMAIN toasts
    /\ ~Includes(aToasts, t)
    /\ ~toasts[t].bInDom
    /\ toasts[t].aOnClose # << >>

\* C3: a toast shown with iDuration > 0 is eventually dismissed (with the timers
\* firing); a toast shown with iDuration <= 0 has no timer, is never closed with
\* bAuto true, and leaves the active list only by a close click, a Show that evicts
\* it, DismissAll or Destroy
C3_AutoDismiss ==
    /\ \A t \in ToastIds :
          (t \in DOMAIN toasts /\ toasts[t].iDuration > 0) ~> Dismissed(t)
    /\ [](\A t \in DOMAIN toasts :
            toasts[t].iDuration <= 0 =>
                /\ toasts[t].sTimer = "none"
                /\ \A i \in DOMAIN toasts[t].aOnClose : ~toasts[t].aOnClose[i]
                /\ \A i \in DOMAIN toasts[t].aRemoval : ~toasts[t].aRemoval[i])
    /\ [][\A t \in DOMAIN toasts :
            (toasts[t].iDuration <= 0 /\ Includes(aToasts, t) /\ ~Includes(aToasts', t)) =>
                \/ ClickClose(t)
                \/ \E d \in DurationChoices, c \in BOOLEAN : Show(d, c)
                \/ \E b \in BOOLEAN : DismissAll(b)
                \/ Destroy]_vars

\* C3 witness: a timed toast dismissed by its timeout while a toast without
\* duration is still active
C3_Witness ==
    \E t, u \in DOMAIN toasts :
        /\ toasts[t].iDuration > 0 /\ toasts[t].sTimer = "fired" /\ Dismissed(t)
        /\ toasts[u].iDuration <= 0 /\ Includes(aToasts, u)

(***************************************************************************)
(*                          Properties: UITree                             *)
(***************************************************************************)
RECURSIVE Subtree(_, _)
\* the node sId and its descendants at any depth, by the child lists
Subtree(reg, sId) ==
    {sId} \cup UNION {Subtree(reg, c) : c \in Range(reg[sId].aChildren) \cap DOMAIN reg}

\* C4: Remove(id) of a registered id returns true and leaves neither the node nor
\* any descendant in the registry, a child list, the root list or the selection;
\* Remove of an unknown id returns false and changes nothing
C4_RemoveSubtree ==
    [][oTreeLast'.sOp = "Remove" =>
        \A n \in NodeIds : Remove(n) =>
            IF n \in DOMAIN oNodes
            THEN /\ oTreeLast'.bRet
                 /\ \A x \in Subtree(oNodes, n) :
                        /\ x \notin DOMAIN oNodes'
                        /\ ~Includes(aRoots', x)
                        /\ ~Includes(aSelected', x)
                        /\ \A y \in DOMAIN oNodes' : ~Includes(oNodes'[y].aChildren, x)
            ELSE /\ ~oTreeLast'.bRet
                 /\ UNCHANGED <<oNodes, aRoots, aSelected>>]_vars

\* C4 witness: a Remove that returned true took a node and two more nodes below it
C4_Witness == oTreeLast.sOp = "Remove" /\ oTreeLast.bRet /\ oTreeLast.iRemoved >= 3

\* C5: Expand(id) returns false for an unknown id, and when it returns true the
\* node's bExpanded is true as the call returns
C5_ExpandTrueIsExpanded ==
    [][oTreeLast'.sOp = "Expand" =>
        \A n \in ExpandIds : \A env \in LazyEnv : Expand(n, env) =>
            /\ (n \notin DOMAIN oNodes => ~oTreeLast'.bRet)
            /\ (oTreeLast'.bRet => n \in DOMAIN oNodes' /\ oNodes'[n].bExpanded)]_vars

\* C6: AddRoot and AddChild throw for node data without sId, with a registered
\* sId or (AddChild) under an unregistered parent, and a call that throws leaves
\* the registry, the root list, the child lists and the selection as they were
C6_AddRejectsAtomically ==
    [][oTreeLast'.sOp \in {"AddRoot", "AddChild"} =>
        /\ \A d \in NestedData : AddRoot(d, NoLazyEnv) =>
              /\ (d.sId = NoId \/ d.sId \in DOMAIN oNodes) => oTreeLast'.bThrew
              /\ oTreeLast'.bThrew => UNCHANGED <<oNodes, aRoots, aSelected>>
        /\ \A p \in NodeIds, d \in NestedData : AddChild(p, d, NoLazyEnv) =>
              /\ (d.sId = NoId \/ d.sId \in DOMAIN oNodes \/ p \notin DOMAIN oNodes)
                     => oTreeLast'.bThrew
              /\ oTreeLast'.bThrew => UNCHANGED <<oNodes, aRoots, aSelected>>]_vars

\* C7: with bMultiSelect false the selection holds at most one id
C7_SingleSelection == ~oTreeOptions.bMultiSelect => Len(aSelected) <= 1

(***************************************************************************)
(*                        Properties: UITabControl                         *)
(***************************************************************************)
\* C8: no operation writes the inline display style of a panel
C8_NoInlineDisplay == \A k \in DOMAIN aTabs : aTabs[k].sDisplay = ""

\* the classes mark exactly the tab at index iActive as the active one
ActiveMarked(tabs, iActive) ==
    \A k \in DOMAIN tabs :
        /\ tabs[k].bPanelActive = (k - 1 = iActive)
        /\ oTabStyle.bClassButtonActive => (tabs[k].bBtnActive = (k - 1 = iActive))
        /\ oTabStyle.bClassButton => (tabs[k].bBtnNormal = (k - 1 # iActive))

\* C9: RemoveTab(i): when the active tab is removed and tabs remain, the tab now at
\* min(i, count-1) is active; when none remains the active index is -1; when a tab
\* before the active one is removed the same tab stays active and GetActiveTab()
\* decreases by one; when a tab after it is removed GetActiveTab() is unchanged.
\* RemoveTab and SetActiveTab with an index out of range change nothing
C9_RemoveTabKeepsActive ==
    [][\A i \in TabIndexes :
        /\ RemoveTab(i) =>
              LET n == Len(aTabs) IN
              IF i < 0 \/ i >= n THEN UNCHANGED <<aTabs, iActiveIndex>>
              ELSE /\ Len(aTabs') = n - 1
                   /\ ActiveMarked(aTabs', GetActiveTab')
                   /\ (iActiveIndex = i /\ n > 1) =>
                          /\ GetActiveTab' = Min(i, n - 2)
                          /\ aTabs'[GetActiveTab' + 1].iTab =
                                 (IF i + 1 < n THEN aTabs[i + 2].iTab ELSE aTabs[i].iTab)
                   /\ (iActiveIndex = i /\ n = 1) => GetActiveTab' = 0 - 1
                   /\ iActiveIndex > i =>
                          /\ GetActiveTab' = iActiveIndex - 1
                          /\ aTabs'[GetActiveTab' + 1].iTab = aTabs[iActiveIndex + 1].iTab
                   /\ iActiveIndex < i =>
                          /\ GetActiveTab' = iActiveIndex
                          /\ iActiveIndex >= 0 =>
                                 aTabs'[GetActiveTab' + 1].iTab = aTabs[iActiveIndex + 1].iTab
        /\ (SetActiveTab(i) /\ (i < 0 \/ i >= Len(aTabs))) =>
              UNCHANGED <<aTabs, iActiveIndex>>]_vars

\* C9 witness: a tab before the active one was removed and tabs remain
C9_Witness ==
    /\ oTabLast.sOp = "RemoveTab" /\ oTabLast.sCase = "before"
    /\ iActiveIndex >= 0 /\ iActiveIndex = oTabLast.iIndex

KeyNow == FilterKey(aColumn)

\* C11: GetKeyValue and SetKeyValue throw "No key columns defined" without a key
\* column and "Multiple key columns found ..." with more than one, changing no
\* value; with exactly one key column GetKeyValue returns the value stored for it,
\* which is the one SetKeyValue or SetValue stored last; HasKeyValue is true exactly
\* when some key column holds a value that is neither null nor undefined
C11_KeyAccess ==
    [][/\ oDbLast'.sOp \in {"GetKeyValue", "SetKeyValue"} =>
            /\ Len(KeyNow) = 0 => oDbRet'.sError = ErrNoKey /\ mapValues' = mapValues
            /\ Len(KeyNow) > 1 => /\ oDbRet'.sError \in {ErrMultiGet, ErrMultiSet}
                                  /\ mapValues' = mapValues
            /\ Len(KeyNow) = 1 => oDbRet'.sError = ""
       /\ (oDbLast'.sOp = "GetKeyValue" /\ Len(KeyNow) = 1) =>
            /\ oDbRet'.ret = MapGet(mapValues, KeyNow[1].sName)
            /\ mapValues' = mapValues
       /\ Len(KeyNow) = 1 =>
            \A v \in DbValues :
                (SetKeyValue(v) \/ SetValue("string", <<KeyNow[1].sName>>, <<v>>)) =>
                    MapGet(mapValues', KeyNow[1].sName) = v
       /\ (oDbLast'.sOp = "HasKeyValue" /\ Len(KeyNow) >= 1) =>
            oDbRet'.ret = JsBool(\E i \in DOMAIN KeyNow :
                                    MapGet(mapValues, KeyNow[i].sName) \notin {Null, Undefined})
      ]_vars

\* C12: for a column defined with a default (0, false and the empty string
\* included) GetValue returns that default while the stored value is missing or
\* null, and otherwise GetValue returns the stored value
C12_GetValueDefault ==
    [][\A n \in KeyNames, d \in DefaultChoices :
        (AddColumnDefault(n, d) /\ ~HasColumn(aColumn, n)) =>
            LET v == MapGet(mapValues', n)
            IN GetValueOp(mapValues', aColumn', n) =
                  (IF v \in {Undefined, Null} /\ d \notin {Undefined, Null} THEN d ELSE v)]_vars

DataRows == IF oTableLast.o.bHeader THEN Tail(oTableLast.aData) ELSE oTableLast.aData

\* the table columns the cells of a returned row are to come from
ListedColumns(T, o) ==
    IF o.aColumn.bNull THEN [j \in DOMAIN T.aColumn |-> j - 1] ELSE o.aColumn.a

\* the table rows that are to be returned
ListedRows(T, o) ==
    IF o.aRows.bNull THEN [i \in DOMAIN T.aTable |-> i - 1] ELSE o.aRows.a

\* the row to be returned for the table row iRow
ListedRow(T, o, iRow) ==
    (IF o.bIndex THEN <<NumCell(iRow)>> ELSE << >>)
    \o [j \in DOMAIN ListedColumns(T, o) |-> At(T.aTable[iRow + 1].cells, ListedColumns(T, o)[j])]

\* the header to be returned
ListedHeader(T, o) ==
    (IF o.bIndex THEN <<StrCell(StrHash)>> ELSE << >>)
    \o [j \in DOMAIN ListedColumns(T, o) |->
            StrCell(T.aColumn[ListedColumns(T, o)[j] + 1].sAlias)]

\* the type of the values at position p of a returned row: the index is a number
TypeAt(T, o, p) ==
    LET q == IF o.aColumn.bNull THEN p ELSE o.aColumn.a[p + 1]
    IN IF o.bIndex THEN (IF q = 0 THEN "number" ELSE GetColumnType(T, q - 1))
       ELSE GetColumnType(T, q)

\* a is not after b in the ascending order of a column of type sType: strings as
\* strings with null first, everything else as numbers
CellLeq(sType, a, b) ==
    IF sType = "string"
    THEN IsNullish(a) \/ (~IsNullish(b) /\ LocaleCompare(a.s, b.s) <= 0)
    ELSE a.n <= b.n

\* C13: GetData with iSort = k > 0 returns the data rows in ascending order of the
\* values in the column it sorts by (the cell at position |k|, less one when
\* bIndex is set), with k < 0 in descending order, and with iSort = 0 in the
\* table's row order; string columns are ordered as strings with null first when
\* ascending and last when descending, other columns numerically; the header row,
\* when requested, stays first.
C13_SortedBySortColumn ==
    oTableLast.sOp = "GetData" =>
        LET T == oTables[1]
            o == oTableLast.o
            p == SortPosition(o)
            aData == DataRows
        IN /\ o.bHeader /\ o.aColumn.bNull => oTableLast.aData[1] = ListedHeader(T, o)
           /\ o.iSort = 0 /\ o.aColumn.bNull =>
                aData = [k \in DOMAIN ListedRows(T, o) |-> ListedRow(T, o, ListedRows(T, o)[k])]
           /\ o.iSort > 0 =>
                \A i \in 1..(Len(aData) - 1) :
                    CellLeq(TypeAt(T, o, p), aData[i][p + 1], aData[i + 1][p + 1])
           /\ o.iSort < 0 =>
                \A i \in 1..(Len(aData) - 1) :
                    CellLeq(TypeAt(T, o, p), aData[i + 1][p + 1], aData[i][p + 1])

\* C14: for every combination of bHeader, bIndex, aRows and aColumn, every data
\* row GetData returns holds exactly the cells of the table columns listed in
\* aColumn (all columns when null) in that order, after the row's table index
\* when bIndex is true; the rows are those listed in aRows (all when null); and
\* the header, when requested, comes first and holds for every cell the alias of
\* the column that cell is taken from, with "#" above the index.
C14_RowsColumnsHeader ==
    oTableLast.sOp = "GetData" =>
        LET T == oTables[1]
            o == oTableLast.o
            aData == DataRows
            aListed == [k \in DOMAIN ListedRows(T, o) |-> ListedRow(T, o, ListedRows(T, o)[k])]
        IN /\ o.bHeader => oTableLast.aData # << >> /\ oTableLast.aData[1] = ListedHeader(T, o)
           /\ Len(aData) = Len(aListed)
           /\ o.iSort = 0 => aData = aListed
           /\ \A i \in DOMAIN aData : \E k \in DOMAIN aListed : aData[i] = aListed[k]
           /\ \A k \in DOMAIN aListed : \E i \in DOMAIN aData : aData[i] = aListed[k]

\* the columns and rows of a table as values: what the table holds, whichever
\* objects hold it
Content(T) ==
    [aColumn |-> [j \in DOMAIN T.aColumn |->
                    [sName |-> T.aColumn[j].sName, sAlias |-> T.aColumn[j].sAlias,
                     sType |-> T.aColumn[j].sType]],
     aTable |-> [i \in DOMAIN T.aTable |-> T.aTable[i].cells]]

\* the rows a clone is to hold: those of aRows, or of the range from iBegin, that
\* exist and that the callback keeps
SelectedRows(T, rows_) ==
    LET aAll == [i \in DOMAIN T.aTable |-> i - 1]
        aAsked == IF ~rows_.aRows.bNull THEN rows_.aRows.a
                  ELSE SelectSeq(aAll, LAMBDA i : i >= rows_.iBegin /\ i < rows_.iBegin + rows_.iCount)
        aKept == SelectSeq(aAsked, LAMBDA i : /\ i \in 0..(Len(T.aTable) - 1)
                                              /\ rows_.bCallback => CallbackKeeps(T.aTable[i + 1]))
    IN [k \in DOMAIN aKept |-> T.aTable[aKept[k] + 1].cells]

\* C15: Clone returns an independent copy. The clone has columns equal to the
\* table's and the rows selected (all rows, in order, for Clone() without
\* argument; aRows before iBegin/iCount; indexes outside 0..Size()-1 skipped; rows
\* the callback rejects left out), the table itself is unchanged, and afterwards
\* Add, Delete, Clear, SetCellValue and a column-type change on either table
\* leave the rows and columns of the other as they were.
C15_CloneIndependent ==
    [][/\ (Len(oTables) = 1 /\ oTableLast'.sOp = "Clone") =>
            /\ Len(oTables') = 2
            /\ Content(oTables'[1]) = Content(oTables[1])
            /\ Content(oTables'[2]).aColumn = Content(oTables[1]).aColumn
            /\ Content(oTables'[2]).aTable = SelectedRows(oTables[1], oTableLast'.o)
            /\ oTableLast'.o = CloneDefaults(oTables[1]) =>
                    Content(oTables'[2]) = Content(oTables[1])
       /\ (Len(oTables) = 2 /\ oTableLast'.iTable \in {1, 2}) =>
            /\ Len(oTables') = 2
            /\ Content(oTables'[3 - oTableLast'.iTable]) = Content(oTables[3 - oTableLast'.iTable])
      ]_vars

\* a table and its clone, both with two rows, after a cell of the clone was set to
\* a value the table does not hold there
C15_Witness ==
    /\ Len(oTables) = 2
    /\ oTableLast.sOp = "SetCellValue" /\ oTableLast.iTable = 2
    /\ Size(oTables[1]) = 2 /\ Size(oTables[2]) = 2
    /\ Content(oTables[1]).aTable # Content(oTables[2]).aTable

(***************************************************************************)
(*                       Properties: UIDraggable                           *)
(***************************************************************************)
\* where the element is: the fields GetPosition reads and the position styled
DragPosition(o) == <<o.iCurrentX, o.iCurrentY, o.iStyleX, o.iStyleY>>

\* C16: the drag protocol. A pointer move or pointer up outside a drag changes
\* nothing and invokes nothing; the position changes only by a move between a
\* pointer down on the handle and the next pointer up, or by SetPosition or
\* ResetPosition; fnOnDragMove and fnOnDragEnd are invoked only after an
\* fnOnDragStart with no fnOnDragEnd since; and the pointer up that completes a
\* drag invokes fnOnDragEnd exactly once and leaves the dragging flag false.
C16_DragProtocol ==
    [][/\ (oDragLast'.sOp \in {"move", "up"} /\ ~bDragOpen) =>
            oDrag' = oDrag /\ oDragLast'.aCalls = << >>
       /\ DragPosition(oDrag') # DragPosition(oDrag) =>
            \/ oDragLast'.sOp = "move" /\ bDragOpen
            \/ oDragLast'.sOp \in {"SetPosition", "ResetPosition"}
       /\ \A k \in DOMAIN oDragLast'.aCalls :
            oDragLast'.aCalls[k] \in {"fnOnDragMove", "fnOnDragEnd"} => bDragOpen
       /\ (oDragLast'.sOp = "up" /\ bDragOpen) =>
            oDragLast'.aCalls = <<"fnOnDragEnd">> /\ ~oDrag'.bDragging /\ ~bDragOpen'
       /\ oDragLast'.sOp # "up" => \A k \in DOMAIN oDragLast'.aCalls :
            oDragLast'.aCalls[k] # "fnOnDragEnd"
      ]_vars

\* a drag that moved the element has just been completed
C16_Witness ==
    /\ oDragLast = [sOp |-> "up", aCalls |-> <<"fnOnDragEnd">>]
    /\ ~oDrag.bDragging /\ ~bDragOpen
    /\ oDrag.iCurrentX > 0 /\ oDrag.iInitialX = oDrag.iCurrentX
    /\ oDrag.iXOffset = oDrag.iCurrentX

====
